---- MODULE Spec2Model ----
(***************************************************************************)
(* A model of the HAC grade scraper (custom_components/hac_grades):        *)
(*   - HACClient.login: the retry/backoff loop around the browserless      *)
(*     automation call;                                                    *)
(*   - HACClient.fetch_grades / _fetch_quarter_grades: the per-quarter     *)
(*     fetch, the identity check and the assembly of the result;           *)
(*   - the roster/grade merge of one quarter;                              *)
(*   - _parse_assignment, _calculate_category_stats and                    *)
(*     _calculate_weighted_percentage.                                     *)
(* Python's None is the string "None" where the value is a string; a       *)
(* number that may be None is <<>> (None) or <<n>> (the number n).         *)
(***************************************************************************)
EXTENDS Integers, Sequences, FiniteSets, TLC

(***************************************************************************)
(* Bounds of the model.                                                    *)
(***************************************************************************)
\* number of fetch_grades invocations made on one client
MaxCalls == 2

\* course blocks (AssignmentClass divs) in one document
MaxDivs == 3

\* course slots probed for an assignments table (the code probes range(8))
MaxSlots == 3

\* data rows of one assignments table
MaxAssignments == 2

(***************************************************************************)
(* Program constants.                                                      *)
(***************************************************************************)
max_retries == 12

retry_delays == <<5, 10, 15, 20, 30, 45, 60, 90, 120, 150, 180, 240>>

\* random.uniform(0, 5): the stagger before the first attempt
JitterMax == 5

quarters == <<"Q1", "Q2", "Q3", "Q4">>

QuarterSet == {quarters[i] : i \in 1..Len(quarters)}

\* the student id the client was constructed with, and another student's id
student_id == "S1"

OtherStudent == "S2"

IdOrNone == {"None", student_id, OtherStudent}

\* what _detect_quarter_from_html can return: None, Q1..Q4, or "Q<n>" for
\* any other dropdown value
DetectableQuarters == {"None", "Q1", "Q2", "Q3", "Q4", "Q5"}

(***************************************************************************)
(* Documents.  A rendered document is abstracted to what the client reads  *)
(* from it: whether it is the empty string, whether parsing it raises,     *)
(* the student id _extract_student_id finds in it, the selected option of  *)
(* the quarter dropdown, and (history) the fetch_grades call during which  *)
(* it was captured.                                                        *)
(***************************************************************************)
NoHtml == [kind |-> "none", captured |-> 0, sid |-> "None", sel |-> "None", bad |-> FALSE]

EmptyHtml(c) == [kind |-> "empty", captured |-> c, sid |-> "None", sel |-> "None", bad |-> FALSE]

BadHtml(c) == [kind |-> "html", captured |-> c, sid |-> "None", sel |-> "None", bad |-> TRUE]

GoodHtml(c, s, q) == [kind |-> "html", captured |-> c, sid |-> s, sel |-> q, bad |-> FALSE]

\* the documents a login automation call can return during call c
LoginDocs(c) ==
    {EmptyHtml(c), BadHtml(c)}
        \cup {GoodHtml(c, s, q) : s \in IdOrNone, q \in DetectableQuarters}

\* the non-empty documents a quarter automation call can return during call c
QuarterDocs(c, quarter) ==
    {BadHtml(c)} \cup {GoodHtml(c, s, quarter) : s \in IdOrNone}

\* Python truthiness of an html value
HtmlTruthy(html) == html.kind = "html"

EmptyMap == [q \in {} |-> 0]

VARIABLES
    \* ---- HACClient fields
    cookies,               \* self._cookies is the session's cookie jar (TRUE) or None (FALSE)
    cookie_jar,            \* number of cookies in session.cookie_jar (capped at 1)
    detected_student_id,   \* self._detected_student_id
    initial_html,          \* self._initial_html
    initial_quarter,       \* self._initial_quarter
    \* ---- control
    pc,                    \* position of the client's coroutine
    callNo,                \* number of fetch_grades calls started so far
    \* ---- locals of login()
    attempt,               \* loop variable of "for attempt in range(max_retries)"
    n_post,                \* automation calls made by this login
    n_transport,           \* of which failed with a transport error
    n_not_ready,           \* liveness probes of this login that reported not live
    n_probe,               \* liveness probes made by this login
    sleeps,                \* backoff delays slept by this login, in order
    jitter,                \* startup stagger slept by this login
    last_outcome,          \* outcome of the latest automation call of this login
    login_result,          \* value returned by login(): "True", "False" or "None" (not yet)
    \* ---- locals of fetch_grades()
    qi,                    \* index into quarters of the period handled next
    quarters_data,         \* quarters_data of fetch_grades
    failed,                \* history: periods of this call whose fetch or extraction failed
    mismatch_seen,         \* history: an identity other than student_id was detected in this call
    result,                \* value returned by fetch_grades()
    quarter_posts,         \* history: automation calls of this call's period fetches, per period
    handled,               \* history: the periods whose _fetch_quarter_grades returned, in order
    \* ---- one period's document and its merge in _fetch_quarter_grades()
    divs,                  \* link text of each AssignmentClass div ("" = no link or empty text)
    tables,                \* per slot: the assignments table of that slot, if any
    all_courses_info,      \* the roster
    courses_with_grades,   \* the graded course records
    courses,               \* the merged course list
    merge_pc,              \* "parked", "document" (before the merge) or "merged"
    \* ---- one assignments table and what _parse_course computes from it
    table_rows,            \* the table's data rows: the texts of the cells of each
    assignments,           \* the parsed assignments
    category_stats,        \* _calculate_category_stats(assignments)
    overall_percentage,    \* _calculate_weighted_percentage(category_stats)
    course_pc,             \* "parked", "table" (before parsing) or "parsed"
    \* ---- HACDataUpdateCoordinator
    coord_quarter,         \* self.quarter, the configured period
    fetch_data,            \* what the latest fetch_grades() call of the coordinator gave
    update_outcome,        \* "pending", "returned" or "UpdateFailed"
    update_data,           \* the dict returned by the latest _async_update_data()
    \* ---- two coordinators, each with the client it created
    pair_inputs,           \* per subject: what the backend answers to its calls
    pair_client,           \* per client: _cookies, _detected_student_id, _initial_html, _initial_quarter
    pair_fetch,            \* per subject: position, loop index, quarters_data, result of its fetch
    \* ---- _format_missing_details
    all_items,             \* the assignments of data["courses"], in course and row order
    details,               \* the string returned, as its parts
    details_pc,            \* "parked", "data" (before formatting) or "formatted"
    \* ---- _calculate_overall_summary
    summary_courses,       \* the merged course list handed to it
    overall_summary,       \* the summary it returns
    summary_pc,            \* "parked", "courses" (before the summary) or "summarised"
    \* ---- fetch_grades over the content of the four period documents
    period_docs,           \* per period: the document its fetch gives, with its content
    period_i,              \* index into quarters of the period handled next (0 = parked)
    periods_data,          \* quarters_data, each period with its courses and summary
    periods_result,        \* the dict returned after the loop
    \* ---- the coordinator's session and client over its updates and shutdowns
    coord_session,         \* self._session: 0 for None, else the number of the session
    closed_sessions,       \* the sessions that have been closed
    client_session,        \* 0 while self._client is None, else self._client.session
    session_pc,            \* "parked", "idle" or "fetching" (an update awaits fetch_grades)
    fetch_calls,           \* history: per fetch_grades call, the sessions at the call
    \* ---- the shared metadata file hac_entity_registry.json and its writers
    meta_file,             \* the file: absent, opened for writing (truncated), or its JSON
    meta_proc              \* per writer: its position and the dict it holds in memory

clientVars == <<cookies, cookie_jar, detected_student_id, initial_html, initial_quarter>>

loginVars == <<attempt, n_post, n_transport, n_not_ready, n_probe, sleeps, jitter,
               last_outcome, login_result>>

fetchVars == <<qi, quarters_data, failed, mismatch_seen, result, quarter_posts, handled>>

mergeVars == <<divs, tables, all_courses_info, courses_with_grades, courses, merge_pc>>

\* the state of the computations that the client's coroutine leaves alone
courseVars == <<table_rows, assignments, category_stats, overall_percentage, course_pc>>

coordVars == <<coord_quarter, fetch_data, update_outcome, update_data>>

pairVars == <<pair_inputs, pair_client, pair_fetch>>

detailVars == <<all_items, details, details_pc>>

summaryVars == <<summary_courses, overall_summary, summary_pc>>

periodVars == <<period_docs, period_i, periods_data, periods_result>>

sessionVars == <<coord_session, closed_sessions, client_session, session_pc, fetch_calls>>

metaVars == <<meta_file, meta_proc>>

extraVars == <<summaryVars, periodVars, sessionVars, metaVars>>

pureVars == <<mergeVars, courseVars, coordVars, pairVars, detailVars, extraVars>>

vars == <<clientVars, pc, callNo, loginVars, fetchVars, pureVars>>

NoResult == [kind |-> "none", error |-> "", quarters |-> EmptyMap, student_id |-> "None"]

ErrorResult(msg) == [kind |-> "error", error |-> msg, quarters |-> EmptyMap, student_id |-> "None"]

\* "not self._cookies" is False: the jar is referenced and holds a cookie
\* (aiohttp's CookieJar is Sized, so an empty jar is falsy)
CookiesTruthy == cookies /\ cookie_jar > 0

LoginLocalsInit ==
    /\ attempt = 0
    /\ n_post = 0
    /\ n_transport = 0
    /\ n_not_ready = 0
    /\ n_probe = 0
    /\ sleeps = <<>>
    /\ jitter = 0
    /\ last_outcome = "None"
    /\ login_result = "None"

LoginLocalsReset ==
    /\ attempt' = 0
    /\ n_post' = 0
    /\ n_transport' = 0
    /\ n_not_ready' = 0
    /\ n_probe' = 0
    /\ sleeps' = <<>>
    /\ jitter' = 0
    /\ last_outcome' = "None"
    /\ login_result' = "None"

MergeParked ==
    /\ divs = <<>>
    /\ tables = <<>>
    /\ all_courses_info = <<>>
    /\ courses_with_grades = <<>>
    /\ courses = <<>>
    /\ merge_pc = "parked"

CourseParked ==
    /\ table_rows = <<>>
    /\ assignments = <<>>
    /\ category_stats = <<>>
    /\ overall_percentage = <<>>
    /\ course_pc = "parked"

CoordParked ==
    /\ coord_quarter = "None"
    /\ fetch_data = EmptyMap
    /\ update_outcome = "parked"
    /\ update_data = EmptyMap

PairParked ==
    /\ pair_inputs = EmptyMap
    /\ pair_client = EmptyMap
    /\ pair_fetch = EmptyMap

DetailParked ==
    /\ all_items = <<>>
    /\ details = EmptyMap
    /\ details_pc = "parked"

SummaryParked ==
    /\ summary_courses = <<>>
    /\ overall_summary = EmptyMap
    /\ summary_pc = "parked"

PeriodsParked ==
    /\ period_docs = EmptyMap
    /\ period_i = 0
    /\ periods_data = EmptyMap
    /\ periods_result = NoResult

SessionParked ==
    /\ coord_session = 0
    /\ closed_sessions = {}
    /\ client_session = 0
    /\ session_pc = "parked"
    /\ fetch_calls = <<>>

MetaParked ==
    /\ meta_file = EmptyMap
    /\ meta_proc = EmptyMap

ExtraParked == SummaryParked /\ PeriodsParked /\ SessionParked /\ MetaParked

ClientInit ==
    /\ cookies = FALSE
    /\ cookie_jar = 0
    /\ detected_student_id = "None"
    /\ initial_html = NoHtml
    /\ initial_quarter = "None"
    /\ pc = "idle"
    /\ callNo = 0
    /\ LoginLocalsInit
    /\ qi = 1
    /\ quarters_data = EmptyMap
    /\ failed = {}
    /\ mismatch_seen = FALSE
    /\ result = NoResult
    /\ quarter_posts = [q \in QuarterSet |-> 0]
    /\ handled = <<>>

Init ==
    /\ ClientInit
    /\ MergeParked
    /\ CourseParked
    /\ CoordParked
    /\ PairParked
    /\ DetailParked
    /\ ExtraParked

(***************************************************************************)
(* login()                                                                 *)
(***************************************************************************)
TransportErrors == {"ClientConnectorError", "TimeoutError"}

\* non-200 status, {"error": ...} record, any other exception
Rejections == {"Non200", "ErrorRecord", "OtherException"}

\* final URL contains /Error or /LogOn
AuthFailures == {"UrlError", "UrlLogOn"}

RECURSIVE SumSeq(_)
SumSeq(s) == IF s = <<>> THEN 0 ELSE Head(s) + SumSeq(Tail(s))

\* a probe branch that always waits the longest delay
ProbeRetryDelay_Longest(a) == retry_delays[Len(retry_delays)]

\* retry_delays[attempt] if attempt < len(retry_delays) else 240 (0-based attempt)
ProbeRetryDelay(a) == IF a < Len(retry_delays) THEN retry_delays[a + 1] ELSE 240

\* a handler that sleeps the first delay of the schedule on every retry
TransportRetryDelay_FirstOnly(a) == retry_delays[1]

\* retry_delays[attempt] in the transport-error handlers (0-based attempt)
TransportRetryDelay(a) == retry_delays[a + 1]

\* attempt < max_retries - 1 in the transport-error handlers
MayRetry(a) == a < max_retries - 1

\* attempt 0: no probe; random stagger, then the automation call is sent
LoginStagger ==
    /\ pc = "login_top"
    /\ attempt = 0
    /\ \E d \in {0, JitterMax} : jitter' = d
    /\ pc' = "login_post"
    /\ UNCHANGED <<pureVars, clientVars, callNo, fetchVars, attempt, n_post, n_transport,
                   n_not_ready, n_probe, sleeps, last_outcome, login_result>>

\* attempt > 0 and _check_browserless_ready() is True (status 200 or 404)
LoginProbeReady ==
    /\ pc = "login_top"
    /\ attempt > 0
    /\ attempt < max_retries
    /\ n_probe' = n_probe + 1
    /\ pc' = "login_post"
    /\ UNCHANGED <<pureVars, clientVars, callNo, fetchVars, attempt, n_post, n_transport,
                   n_not_ready, sleeps, jitter, last_outcome, login_result>>

\* a not-live probe that sleeps and then makes the automation call all the same
LoginProbeNotReady_CallsAnyway ==
    /\ pc = "login_top"
    /\ attempt > 0
    /\ attempt < max_retries
    /\ n_probe' = n_probe + 1
    /\ n_not_ready' = n_not_ready + 1
    /\ sleeps' = Append(sleeps, ProbeRetryDelay(attempt))
    /\ pc' = "login_post"
    /\ UNCHANGED <<pureVars, clientVars, callNo, fetchVars, attempt, n_post, n_transport,
                   jitter, last_outcome, login_result>>

\* attempt > 0 and _check_browserless_ready() is False: sleep, continue
LoginProbeNotReady ==
    /\ pc = "login_top"
    /\ attempt > 0
    /\ attempt < max_retries
    /\ n_probe' = n_probe + 1
    /\ n_not_ready' = n_not_ready + 1
    /\ sleeps' = Append(sleeps, ProbeRetryDelay(attempt))
    /\ attempt' = attempt + 1
    /\ pc' = "login_top"
    /\ UNCHANGED <<pureVars, clientVars, callNo, fetchVars, n_post, n_transport, jitter,
                   last_outcome, login_result>>

\* the automation call raises ClientConnectorError or asyncio.TimeoutError
LoginPostTransportError ==
    /\ pc = "login_post"
    /\ \E e \in TransportErrors : last_outcome' = e
    /\ n_post' = n_post + 1
    /\ n_transport' = n_transport + 1
    /\ IF MayRetry(attempt)
         THEN /\ sleeps' = Append(sleeps, TransportRetryDelay(attempt))
              /\ attempt' = attempt + 1
              /\ pc' = "login_top"
              /\ login_result' = login_result
         ELSE /\ login_result' = "False"
              /\ pc' = "login_ret"
              /\ UNCHANGED <<sleeps, attempt>>
    /\ UNCHANGED <<pureVars, clientVars, callNo, fetchVars, n_not_ready, n_probe, jitter>>

\* a handler that treats every failure of the call like a transport error
LoginPostRejected_Retried ==
    /\ pc = "login_post"
    /\ \E e \in Rejections : last_outcome' = e
    /\ n_post' = n_post + 1
    /\ IF MayRetry(attempt)
         THEN /\ sleeps' = Append(sleeps, TransportRetryDelay(attempt))
              /\ attempt' = attempt + 1
              /\ pc' = "login_top"
              /\ login_result' = login_result
         ELSE /\ login_result' = "False"
              /\ pc' = "login_ret"
              /\ UNCHANGED <<sleeps, attempt>>
    /\ UNCHANGED <<pureVars, clientVars, callNo, fetchVars, n_transport, n_not_ready, n_probe, jitter>>

\* status != 200, "error" in result, or an exception that is neither
\* ClientConnectorError nor TimeoutError: return False.  A KeyError raised
\* while the cookies are imported may leave some of them in the jar.
LoginPostRejected ==
    /\ pc = "login_post"
    /\ \E e \in Rejections, k \in 0..1 :
          /\ last_outcome' = e
          /\ cookie_jar' = IF e = "OtherException" /\ k > 0 THEN 1 ELSE cookie_jar
    /\ n_post' = n_post + 1
    /\ login_result' = "False"
    /\ pc' = "login_ret"
    /\ UNCHANGED <<pureVars, cookies, detected_student_id, initial_html, initial_quarter,
                   callNo, fetchVars, attempt, n_transport, n_not_ready, n_probe,
                   sleeps, jitter>>

\* a login that takes a stay on the login page for a cold backend and retries
LoginPostAuthFailed_Retried ==
    /\ pc = "login_post"
    /\ \E e \in AuthFailures : last_outcome' = e
    /\ n_post' = n_post + 1
    /\ IF MayRetry(attempt)
         THEN /\ sleeps' = Append(sleeps, TransportRetryDelay(attempt))
              /\ attempt' = attempt + 1
              /\ pc' = "login_top"
              /\ login_result' = login_result
         ELSE /\ login_result' = "False"
              /\ pc' = "login_ret"
              /\ UNCHANGED <<sleeps, attempt>>
    /\ UNCHANGED <<pureVars, clientVars, callNo, fetchVars, n_transport, n_not_ready, n_probe, jitter>>

\* a login that records the returned document before it looks at the final URL
LoginPostAuthFailed_KeepsDocument ==
    /\ pc = "login_post"
    /\ \E e \in AuthFailures : last_outcome' = e
    /\ \E html \in LoginDocs(callNo) :
          /\ initial_html' = html
          /\ initial_quarter' = IF html.kind = "html" /\ ~html.bad THEN html.sel ELSE "None"
    /\ n_post' = n_post + 1
    /\ login_result' = "False"
    /\ pc' = "login_ret"
    /\ UNCHANGED <<pureVars, cookies, cookie_jar, detected_student_id, callNo, fetchVars,
                   attempt, n_transport, n_not_ready, n_probe, sleeps, jitter>>

\* "/Error" in final_url or "/LogOn" in final_url: return False
LoginPostAuthFailed ==
    /\ pc = "login_post"
    /\ \E e \in AuthFailures : last_outcome' = e
    /\ n_post' = n_post + 1
    /\ login_result' = "False"
    /\ pc' = "login_ret"
    /\ UNCHANGED <<pureVars, clientVars, callNo, fetchVars, attempt, n_transport,
                   n_not_ready, n_probe, sleeps, jitter>>

\* _detect_quarter_from_html: the dropdown's selected option, None when the
\* document has none or parsing raises
DetectQuarter(html) ==
    IF html.kind = "html" /\ ~html.bad THEN html.sel ELSE "None"

\* landed on an authenticated page: import cookies, record the document
LoginPostSuccess ==
    /\ pc = "login_post"
    /\ \E nc \in 0..1, html \in LoginDocs(callNo), selected \in IdOrNone :
          /\ cookie_jar' = IF nc > 0 THEN 1 ELSE cookie_jar
          /\ cookies' = TRUE
          /\ initial_html' = html
          /\ initial_quarter' = DetectQuarter(html)
          /\ detected_student_id' =
                IF selected # "None" THEN selected ELSE detected_student_id
          /\ mismatch_seen' = (mismatch_seen \/ selected = OtherStudent)
    /\ last_outcome' = "Ok"
    /\ n_post' = n_post + 1
    /\ login_result' = "True"
    /\ pc' = "login_ret"
    /\ UNCHANGED <<pureVars, callNo, qi, quarters_data, failed, result, quarter_posts, handled,
                   attempt, n_transport,
                   n_not_ready, n_probe, sleeps, jitter>>

\* the for loop ran out of attempts: the final "return False"
LoginExhausted ==
    /\ pc = "login_top"
    /\ attempt >= max_retries
    /\ login_result' = "False"
    /\ pc' = "login_ret"
    /\ UNCHANGED <<pureVars, clientVars, callNo, fetchVars, attempt, n_post, n_transport,
                   n_not_ready, n_probe, sleeps, jitter, last_outcome>>

(***************************************************************************)
(* fetch_grades()                                                          *)
(***************************************************************************)
\* a caller (the coordinator's periodic update) invokes fetch_grades
FetchGradesCall ==
    /\ pc \in {"idle", "fg_ret"}
    /\ callNo < MaxCalls
    /\ callNo' = callNo + 1
    /\ qi' = 1
    /\ quarters_data' = EmptyMap
    /\ failed' = {}
    /\ mismatch_seen' = FALSE
    /\ result' = NoResult
    /\ quarter_posts' = [q \in QuarterSet |-> 0]
    /\ handled' = <<>>
    /\ pc' = IF CookiesTruthy THEN "quarters" ELSE "login_top"
    /\ UNCHANGED <<pureVars, clientVars, loginVars>>

\* a fetch_grades that goes on to the periods whatever login() returned
LoginReturn_IgnoresFailure ==
    /\ pc = "login_ret"
    /\ pc' = "quarters"
    /\ result' = result
    /\ LoginLocalsReset
    /\ UNCHANGED <<pureVars, clientVars, callNo, qi, quarters_data, failed, mismatch_seen,
                   quarter_posts, handled>>

\* login() returns into fetch_grades
LoginReturn ==
    /\ pc = "login_ret"
    /\ IF login_result = "True"
         THEN /\ pc' = "quarters"
              /\ result' = result
         ELSE /\ pc' = "fg_ret"
              /\ result' = ErrorResult("Login failed")
    /\ LoginLocalsReset
    /\ UNCHANGED <<pureVars, clientVars, callNo, qi, quarters_data, failed, mismatch_seen,
                   quarter_posts, handled>>

\* _fetch_quarter_grades after the document was obtained: the identity check
\* (only while no identity is known) and the extraction.  The outcome: is the
\* result an error record, and the new self._detected_student_id.
ProcessQuarterHtml(html) ==
    IF html.bad
      THEN [error |-> TRUE, detected |-> detected_student_id]
      ELSE IF detected_student_id = "None" /\ html.sid # "None"
             THEN [error |-> (student_id # html.sid), detected |-> html.sid]
             ELSE [error |-> FALSE, detected |-> detected_student_id]

\* a loop that stores the period's record whether or not it is an error record
StoreQuarter_Always(qd, quarter, html, out) ==
    (quarter :> [captured |-> html.captured]) @@ qd

\* "if 'error' not in quarter_data: quarters_data[quarter] = quarter_data"
StoreQuarter(qd, quarter, html, out) ==
    IF ~out.error
      THEN (quarter :> [captured |-> html.captured]) @@ qd
      ELSE qd

\* a cached period that makes an automation call all the same
FetchQuarterCached_Refetch ==
    /\ pc = "quarters"
    /\ qi <= Len(quarters)
    /\ quarters[qi] = initial_quarter
    /\ HtmlTruthy(initial_html)
    /\ LET out == ProcessQuarterHtml(initial_html)
       IN /\ detected_student_id' = out.detected
          /\ quarters_data' = StoreQuarter(quarters_data, quarters[qi], initial_html, out)
    /\ qi' = qi + 1
    /\ quarter_posts' = [quarter_posts EXCEPT ![quarters[qi]] = @ + 1]
    /\ handled' = Append(handled, quarters[qi])
    /\ UNCHANGED <<pureVars, cookies, cookie_jar, initial_html, initial_quarter, pc, callNo,
                   loginVars, result, failed, mismatch_seen>>

\* _fetch_quarter_grades(quarter) served from the document cached by login
FetchQuarterCached ==
    /\ pc = "quarters"
    /\ qi <= Len(quarters)
    /\ quarters[qi] = initial_quarter
    /\ HtmlTruthy(initial_html)
    /\ LET quarter == quarters[qi]
           html == initial_html
           out == ProcessQuarterHtml(html)
       IN /\ detected_student_id' = out.detected
          /\ quarters_data' = StoreQuarter(quarters_data, quarter, html, out)
          /\ failed' = IF html.bad \/ (detected_student_id = "None" /\ html.sid = OtherStudent)
                         THEN failed \cup {quarter} ELSE failed
          /\ mismatch_seen' = (mismatch_seen
                                 \/ (~html.bad /\ detected_student_id = "None"
                                       /\ html.sid = OtherStudent))
    /\ qi' = qi + 1
    /\ handled' = Append(handled, quarters[qi])
    /\ UNCHANGED <<pureVars, cookies, cookie_jar, initial_html, initial_quarter, pc, callNo,
                   loginVars, result, quarter_posts>>

\* _fetch_quarter_with_browserless returned None or "" :
\* connection error, timeout, other exception, non-200, error record, empty html
QuarterFetchFailures ==
    {"ClientConnectorError", "TimeoutError", "OtherException", "Non200",
     "ErrorRecord", "EmptyHtml"}

\* a failed period call that is made once more before the period is given up
FetchQuarterBrowserlessFailed_Retried ==
    /\ pc = "quarters"
    /\ qi <= Len(quarters)
    /\ ~(quarters[qi] = initial_quarter /\ HtmlTruthy(initial_html))
    /\ failed' = failed \cup {quarters[qi]}
    /\ qi' = qi + 1
    /\ quarter_posts' = [quarter_posts EXCEPT ![quarters[qi]] = @ + 2]
    /\ handled' = Append(handled, quarters[qi])
    /\ UNCHANGED <<pureVars, clientVars, pc, callNo, loginVars, quarters_data, mismatch_seen, result>>

FetchQuarterBrowserlessFailed ==
    /\ pc = "quarters"
    /\ qi <= Len(quarters)
    /\ ~(quarters[qi] = initial_quarter /\ HtmlTruthy(initial_html))
    /\ \E e \in QuarterFetchFailures : TRUE
    /\ failed' = failed \cup {quarters[qi]}
    /\ qi' = qi + 1
    /\ quarter_posts' = [quarter_posts EXCEPT ![quarters[qi]] = @ + 1]
    /\ handled' = Append(handled, quarters[qi])
    /\ UNCHANGED <<pureVars, clientVars, pc, callNo, loginVars, quarters_data, mismatch_seen, result>>

\* _fetch_quarter_with_browserless returned a non-empty document
FetchQuarterBrowserless ==
    /\ pc = "quarters"
    /\ qi <= Len(quarters)
    /\ ~(quarters[qi] = initial_quarter /\ HtmlTruthy(initial_html))
    /\ \E html \in QuarterDocs(callNo, quarters[qi]) :
         LET quarter == quarters[qi]
             out == ProcessQuarterHtml(html)
         IN /\ detected_student_id' = out.detected
            /\ quarters_data' = StoreQuarter(quarters_data, quarter, html, out)
            /\ failed' = IF html.bad \/ (detected_student_id = "None" /\ html.sid = OtherStudent)
                           THEN failed \cup {quarter} ELSE failed
            /\ mismatch_seen' = (mismatch_seen
                                   \/ (~html.bad /\ detected_student_id = "None"
                                         /\ html.sid = OtherStudent))
    /\ qi' = qi + 1
    /\ quarter_posts' = [quarter_posts EXCEPT ![quarters[qi]] = @ + 1]
    /\ handled' = Append(handled, quarters[qi])
    /\ UNCHANGED <<pureVars, cookies, cookie_jar, initial_html, initial_quarter, pc, callNo,
                   loginVars, result>>

\* after the loop: error when no quarter was stored, the result otherwise
FetchGradesResult(qd) ==
    IF DOMAIN qd = {}
      THEN ErrorResult("No quarter data could be fetched")
      ELSE [kind |-> "ok", error |-> "", quarters |-> qd,
            student_id |-> IF detected_student_id # "None"
                             THEN detected_student_id ELSE student_id]

FetchGradesFinish ==
    /\ pc = "quarters"
    /\ qi > Len(quarters)
    /\ result' = FetchGradesResult(quarters_data)
    /\ pc' = "fg_ret"
    /\ UNCHANGED <<pureVars, clientVars, callNo, loginVars, qi, quarters_data, failed,
                   mismatch_seen, quarter_posts, handled>>

Next ==
    \/ FetchGradesCall
    \/ LoginStagger
    \/ LoginProbeReady
    \/ LoginProbeNotReady
    \/ LoginPostTransportError
    \/ LoginPostRejected
    \/ LoginPostAuthFailed
    \/ LoginPostSuccess
    \/ LoginExhausted
    \/ LoginReturn
    \/ FetchQuarterCached
    \/ FetchQuarterBrowserlessFailed
    \/ FetchQuarterBrowserless
    \/ FetchGradesFinish

Spec == Init /\ [][Next]_vars

(***************************************************************************)
(* Properties of login() and fetch_grades(), checked under Spec.           *)
(***************************************************************************)
\* sum of the first n entries of the schedule
SumFirstDelays(n) == SumSeq(SubSeq(retry_delays, 1, n))

\* C1 as stated: when login() returns after N automation calls failed with a
\* transport error, N < 12, it has made exactly N+1 automation calls and the
\* backoff slept is the sum of the first N schedule entries; after 12
\* transport errors it has returned False with 12 calls made.
C1_AsStated ==
    pc = "login_ret" =>
        IF n_transport < max_retries
          THEN /\ n_post = n_transport + 1
               /\ SumSeq(sleeps) = SumFirstDelays(n_transport)
          ELSE /\ n_post = max_retries
               /\ login_result = "False"

\* C1 (amended): when login() returns after N automation calls failed with a
\* transport error and M liveness probes reported not live: if N + M < 12 it
\* has made exactly N+1 automation calls and the backoff slept is the sum of
\* the first N + M schedule entries; if N + M = 12 it has made N calls, no
\* further one, and returns False (N = 12: twelve calls, no thirteenth).
C1_RetrySchedule ==
    pc = "login_ret" =>
        IF n_transport + n_not_ready < max_retries
          THEN /\ n_post = n_transport + 1
               /\ SumSeq(sleeps) = SumFirstDelays(n_transport + n_not_ready)
          ELSE /\ n_transport + n_not_ready = max_retries
               /\ n_post = n_transport
               /\ n_post <= max_retries
               /\ login_result = "False"

\* C1 witness: login returned after 3 transport errors and 2 not-live probes
C1_Witness ==
    /\ pc = "login_ret"
    /\ n_transport = 3
    /\ n_not_ready = 2
    /\ n_post = 4
    /\ SumSeq(sleeps) = 5 + 10 + 15 + 20 + 30

\* C2: once an automation call of login() returned a final URL containing
\* /LogOn or /Error, login is at its return with False: that call is the last
\* step of the login, so no call, probe or sleep follows it.
C2_AuthFailureReturnsAtOnce ==
    last_outcome \in AuthFailures =>
        /\ pc = "login_ret"
        /\ login_result = "False"
        /\ n_post = n_transport + 1
        /\ Len(sleeps) = n_transport + n_not_ready

\* C2 witness: the third automation call landed on the login page
C2_Witness ==
    /\ pc = "login_ret"
    /\ last_outcome = "UrlLogOn"
    /\ n_post = 3
    /\ n_probe = 3

\* C3: a non-200 response, an error record or any other exception ends
\* login() with False at once; login is at a further attempt after an
\* automation call only when the latest call failed with a connection error
\* or a timeout.
C3_OnlyTransportErrorsRetried ==
    /\ last_outcome \in Rejections =>
          /\ pc = "login_ret"
          /\ login_result = "False"
          /\ n_post = n_transport + 1
    /\ (pc \in {"login_top", "login_post"} /\ n_post > 0) =>
          /\ last_outcome \in TransportErrors
          /\ n_post = n_transport

\* C3 witness: the second automation call answered with a non-200 status
C3_Witness ==
    /\ pc = "login_ret"
    /\ last_outcome = "Non200"
    /\ n_post = 2
    /\ login_result = "False"

\* C4: when fetch_grades returns after the period loop (login succeeded or was
\* not needed), with F the periods whose fetch or extraction failed: if F is
\* all four periods the result is an error, otherwise it is a result without
\* error whose quarters map has exactly the periods outside F as keys.
C4_PartialFailure ==
    (pc = "fg_ret" /\ result.error # "Login failed") =>
        IF failed = QuarterSet
          THEN result.kind = "error"
          ELSE /\ result.kind = "ok"
               /\ DOMAIN result.quarters = QuarterSet \ failed

\* C4 witness: two of the four periods failed and the call returned the others
C4_Witness ==
    /\ pc = "fg_ret"
    /\ failed = {"Q2", "Q4"}
    /\ result.kind = "ok"
    /\ DOMAIN result.quarters = {"Q1", "Q3"}

\* C5: when an identity other than the requested student_id was detected
\* during a fetch_grades call (login banner or period document), the call
\* returns an error and no period data.
C5_IdentityMismatchFailsFetch ==
    (pc = "fg_ret" /\ mismatch_seen) =>
        /\ result.kind = "error"
        /\ DOMAIN result.quarters = {}

\* C6: every period of a fetch_grades result is computed from a document
\* captured during that same call.
C6_FreshDocuments ==
    (pc = "fg_ret" /\ result.kind = "ok") =>
        \A q \in DOMAIN result.quarters : result.quarters[q].captured = callNo

(***************************************************************************)
(* The roster/grade merge of one period (_fetch_quarter_grades).           *)
(* A document is abstracted to its AssignmentClass divs (the text of the   *)
(* div's sg-header-heading link) and, per slot, its assignments table      *)
(* (the text the slot's course-name selector finds, and the number of      *)
(* rows that parse to an assignment).                                      *)
(***************************************************************************)
None == <<>>

Some(n) == <<n>>

CourseNames == {"ENG", "MATH"}

\* f"Course {course_index + 1}"
FallbackName(i) == <<"Course 1", "Course 2", "Course 3", "Course 4",
                     "Course 5", "Course 6", "Course 7", "Course 8">>[i + 1]

NoTable == [present |-> FALSE, name_elem |-> "NoElem", rows |-> 0]

\* rows: a table without a parsable data row, a table with two of them
RowCounts == {0, 2}

\* name_elem: "NoElem" when soup.select_one finds nothing, else the stripped text
Tables ==
    {NoTable} \cup
    {[present |-> TRUE, name_elem |-> n, rows |-> r] :
        n \in CourseNames \cup {"NoElem"}, r \in RowCounts}

RECURSIVE SeqsUpTo(_, _)
SeqsUpTo(S, n) ==
    IF n = 0 THEN {<<>>}
    ELSE LET shorter == SeqsUpTo(S, n - 1)
         IN shorter \cup {Append(q, x) : q \in {t \in shorter : Len(t) = n - 1}, x \in S}

\* _extract_all_courses_from_html: one entry per div that has a link with
\* non-empty text; course_index is the div's position among all divs
RECURSIVE ExtractAllCoursesFrom(_, _)
ExtractAllCoursesFrom(d, idx) ==
    IF idx > Len(d) THEN <<>>
    ELSE (IF d[idx] # ""
            THEN <<[course |-> d[idx], course_index |-> idx - 1]>>
            ELSE <<>>)
         \o ExtractAllCoursesFrom(d, idx + 1)

ExtractAllCourses(d) == ExtractAllCoursesFrom(d, 1)

\* the record _parse_course returns for slot i (0-based) whose table exists;
\* the grade fields stand for what the table's rows compute to
ParseCourse(t, i) ==
    [course |-> IF t.name_elem = "NoElem" THEN FallbackName(i) ELSE t.name_elem,
     course_index |-> i,
     total_assignments |-> t.rows,
     not_hand_in |-> 0,
     not_yet_graded |-> 0,
     too_late_to_count |-> 0,
     score_below_fifty |-> 0,
     overall_percentage |-> IF t.rows > 0 THEN Some(9000) ELSE None,
     hac_overall_percentage |-> Some(9000 + i),
     hac_points_earned |-> Some(90),
     hac_points_possible |-> Some(<<"1", "0", "0">>),
     assignments |-> [k \in 1..t.rows |-> "assignment"],
     hac_last_updated |-> Some(20260101),
     days_since_update |-> Some(i)]

\* "for i in range(8): course_data = self._parse_course(soup, i)"
RECURSIVE ParseCoursesFrom(_, _)
ParseCoursesFrom(ts, i) ==
    IF i >= Len(ts) THEN <<>>
    ELSE (IF ts[i + 1].present THEN <<ParseCourse(ts[i + 1], i)>> ELSE <<>>)
         \o ParseCoursesFrom(ts, i + 1)

ParseCourses(ts) == ParseCoursesFrom(ts, 0)

\* the placeholder appended for a roster entry without grade data
Placeholder(course_info) ==
    [course |-> course_info.course,
     course_index |-> course_info.course_index,
     total_assignments |-> 0,
     not_hand_in |-> 0,
     not_yet_graded |-> 0,
     too_late_to_count |-> 0,
     score_below_fifty |-> 0,
     overall_percentage |-> None,
     hac_overall_percentage |-> None,
     hac_points_earned |-> None,
     hac_points_possible |-> None,
     assignments |-> <<>>,
     hac_last_updated |-> None,
     days_since_update |-> None]

\* courses_with_grades_dict = {c["course"]: c for c in courses_with_grades}:
\* a later record replaces an earlier one of the same name
InGradesDict(graded, name) == \E k \in 1..Len(graded) : graded[k].course = name

GradesDictGet(graded, name) ==
    LET last == CHOOSE k \in 1..Len(graded) :
                    /\ graded[k].course = name
                    /\ \A j \in (k + 1)..Len(graded) : graded[j].course # name
    IN graded[last]

\* a merge that returns the graded records and forgets the roster
MergeCourses_GradedOnly(roster, graded) == graded

\* a merge that walks the roster from its last entry to its first
MergeCourses_Reversed(roster, graded) ==
    [i \in 1..Len(roster) |->
        LET r == roster[Len(roster) + 1 - i]
        IN IF InGradesDict(graded, r.course)
             THEN GradesDictGet(graded, r.course)
             ELSE Placeholder(r)]

\* "for course_info in all_courses_info": the graded record, else a placeholder
MergeCourses(roster, graded) ==
    [i \in 1..Len(roster) |->
        IF InGradesDict(graded, roster[i].course)
          THEN GradesDictGet(graded, roster[i].course)
          ELSE Placeholder(roster[i])]

MergeInputs ==
    /\ divs \in SeqsUpTo(CourseNames \cup {""}, MaxDivs)
    /\ tables \in {t \in SeqsUpTo(Tables, MaxSlots) : Len(t) = MaxSlots}
    /\ all_courses_info = <<>>
    /\ courses_with_grades = <<>>
    /\ courses = <<>>
    /\ merge_pc = "document"

\* _fetch_quarter_grades from the roster extraction to the merged list
MergeQuarter ==
    /\ merge_pc = "document"
    /\ all_courses_info' = ExtractAllCourses(divs)
    /\ courses_with_grades' = ParseCourses(tables)
    /\ courses' = MergeCourses(ExtractAllCourses(divs), ParseCourses(tables))
    /\ merge_pc' = "merged"
    /\ UNCHANGED <<divs, tables, courseVars, coordVars, pairVars, detailVars, extraVars, clientVars, pc, callNo, loginVars, fetchVars>>

NextMerge == MergeQuarter

MergeInit == ClientInit /\ CourseParked /\ CoordParked /\ PairParked /\ DetailParked /\ ExtraParked /\ MergeInputs

SpecMerge == MergeInit /\ [][NextMerge]_vars

RosterNames == {all_courses_info[i].course : i \in 1..Len(all_courses_info)}

IsPlaceholder(c) ==
    /\ c.total_assignments = 0
    /\ c.not_hand_in = 0
    /\ c.not_yet_graded = 0
    /\ c.too_late_to_count = 0
    /\ c.score_below_fifty = 0
    /\ c.assignments = <<>>
    /\ c.overall_percentage = None
    /\ c.hac_overall_percentage = None
    /\ c.hac_points_earned = None
    /\ c.hac_points_possible = None
    /\ c.hac_last_updated = None

\* C7 as stated: after the merge, for each course name present in the roster
\* the merged list has exactly one entry of that name; it is a graded record
\* of that name, unchanged, if there is one, and a placeholder otherwise.
C7_AsStated ==
    merge_pc = "merged" =>
        \A name \in RosterNames :
            /\ Cardinality({i \in 1..Len(courses) : courses[i].course = name}) = 1
            /\ \A i \in 1..Len(courses) :
                  courses[i].course = name =>
                      IF InGradesDict(courses_with_grades, name)
                        THEN \E k \in 1..Len(courses_with_grades) :
                                 courses[i] = courses_with_grades[k]
                        ELSE IsPlaceholder(courses[i])

\* C7 (amended): after the merge the merged list has exactly one entry per
\* roster entry, in roster order and under the roster entry's name (a name
\* occurring k times in the roster occurs k times in the merged list); the
\* entry is the graded record of that name (the last one when several graded
\* records share the name) with all fields unchanged if there is one,
\* otherwise a placeholder with the roster entry's name and index, zero
\* counts, no assignments and null percentages, points and update date.
C7_RosterMerge ==
    merge_pc = "merged" =>
        /\ Len(courses) = Len(all_courses_info)
        /\ \A i \in 1..Len(courses) :
              LET name == all_courses_info[i].course
              IN /\ courses[i].course = name
                 /\ IF \E k \in 1..Len(courses_with_grades) :
                          courses_with_grades[k].course = name
                      THEN \E k \in 1..Len(courses_with_grades) :
                              /\ courses[i] = courses_with_grades[k]
                              /\ \A j \in (k + 1)..Len(courses_with_grades) :
                                    courses_with_grades[j].course # name
                      ELSE /\ IsPlaceholder(courses[i])
                           /\ courses[i].course_index = all_courses_info[i].course_index
        /\ \A name \in RosterNames :
              Cardinality({i \in 1..Len(courses) : courses[i].course = name})
                = Cardinality({i \in 1..Len(all_courses_info) :
                                  all_courses_info[i].course = name})

\* C7 witness: a merged list holding a graded record with an assignment and a
\* placeholder for a course block that has no table
C7_Witness ==
    /\ merge_pc = "merged"
    /\ Len(courses) = 2
    /\ courses[1].course = "ENG"
    /\ courses[1].total_assignments = 2
    /\ courses[2].course = "MATH"
    /\ IsPlaceholder(courses[2])
    /\ courses[2].course_index = 2


(***************************************************************************)
(* _parse_assignment, _calculate_category_stats and                        *)
(* _calculate_weighted_percentage.                                         *)
(* A text is the sequence of its characters.  A number is kept in tenths   *)
(* (float("8.5") is 85); the texts of the model carry at most one decimal  *)
(* digit, and inf, nan and exponents are outside the model.  A percentage  *)
(* rounded to 2 decimals is kept in hundredths of a percent (90.0 is 9000).*)
(***************************************************************************)
STATUS_SCORED == "Scored"

STATUS_NHI == "NHI"

STATUS_NYG == "NYG"

STATUS_TLTC == "TLTC"

STATUS_SBF == "SBF"

STATUS_EXEMPT == "EXEMPT"

PRACTICE == <<"P", "R", "A", "C", "T", "I", "C", "E">>

PROCESS == <<"P", "R", "O", "C", "E", "S", "S">>

PRODUCT == <<"P", "R", "O", "D", "U", "C", "T">>

\* weights that do not tell the categories apart
CATEGORY_WEIGHTS_Equal == (PRACTICE :> 1) @@ (PROCESS :> 1) @@ (PRODUCT :> 1)

\* const.CATEGORY_WEIGHTS, in hundredths
CATEGORY_WEIGHTS == (PRACTICE :> 20) @@ (PROCESS :> 30) @@ (PRODUCT :> 50)

LowerLetters == <<"a", "b", "c", "d", "e", "f", "g", "h", "i", "j", "k", "l", "m", "n", "o", "p", "q", "r", "s", "t", "u", "v", "w", "x", "y", "z">>

UpperLetters == <<"A", "B", "C", "D", "E", "F", "G", "H", "I", "J", "K", "L", "M", "N", "O", "P", "Q", "R", "S", "T", "U", "V", "W", "X", "Y", "Z">>

\* str.upper()
UpperOf ==
    [c \in {LowerLetters[i] : i \in 1..Len(LowerLetters)} |->
        UpperLetters[CHOOSE i \in 1..Len(LowerLetters) : LowerLetters[i] = c]]

UpperChar(c) == IF c \in DOMAIN UpperOf THEN UpperOf[c] ELSE c

Upper(t) == [i \in 1..Len(t) |-> UpperChar(t[i])]

\* "sub in t"
Contains(t, sub) ==
    \E i \in 0..(Len(t) - Len(sub)) : SubSeq(t, i + 1, i + Len(sub)) = sub

Digits == <<"0", "1", "2", "3", "4", "5", "6", "7", "8", "9">>

IsDigits(t) == \A i \in 1..Len(t) : \E d \in 1..Len(Digits) : Digits[d] = t[i]

DigitValue(c) == (CHOOSE d \in 1..Len(Digits) : Digits[d] = c) - 1

RECURSIVE DigitsValue(_)
DigitsValue(t) ==
    IF t = <<>> THEN 0
    ELSE 10 * DigitsValue(SubSeq(t, 1, Len(t) - 1)) + DigitValue(t[Len(t)])

\* float(t) for a stripped text: None stands for ValueError, Some(n) for the
\* number n/10.  Sign, digits, at most one point, at least one digit.
ParseFloat(t) ==
    LET signed == t # <<>> /\ t[1] \in {"-", "+"}
        sign == IF t # <<>> /\ t[1] = "-" THEN -1 ELSE 1
        body == IF signed THEN Tail(t) ELSE t
        dots == {i \in 1..Len(body) : body[i] = "."}
    IN IF dots = {}
         THEN IF body # <<>> /\ IsDigits(body)
                THEN Some(sign * 10 * DigitsValue(body))
                ELSE None
         ELSE IF Cardinality(dots) = 1
                THEN LET d == CHOOSE i \in dots : TRUE
                         ip == SubSeq(body, 1, d - 1)
                         fp == SubSeq(body, d + 1, Len(body))
                     IN IF IsDigits(ip) /\ IsDigits(fp) /\ Len(ip) + Len(fp) > 0
                             /\ Len(fp) <= 1
                          THEN Some(sign * (10 * DigitsValue(ip) + DigitsValue(fp)))
                          ELSE None
                ELSE None

\* round(x, 2) of x = n / d * 100 for integers n and d # 0, in hundredths:
\* the quotient by long division, four decimal digits, then ties to the
\* even neighbour
RoundDiv(n, d) ==
    LET nn == IF d < 0 THEN -n ELSE n
        dd == IF d < 0 THEN -d ELSE d
        q0 == nn \div dd
        r0 == nn % dd
        q1 == 10 * q0 + ((10 * r0) \div dd)
        r1 == (10 * r0) % dd
        q2 == 10 * q1 + ((10 * r1) \div dd)
        r2 == (10 * r1) % dd
        q3 == 10 * q2 + ((10 * r2) \div dd)
        r3 == (10 * r2) % dd
        q == 10 * q3 + ((10 * r3) \div dd)
        r == (10 * r3) % dd
    IN IF 2 * r < dd THEN q
       ELSE IF 2 * r > dd THEN q + 1
       ELSE IF q % 2 = 0 THEN q ELSE q + 1

\* round((score / total_points) * 100, 2), in hundredths of a percent
Percentage(score, total_points) == RoundDiv(score, total_points)

RECURSIVE GCD(_, _)
GCD(a, b) == IF b = 0 THEN a ELSE GCD(b, a % b)

LCM(a, b) == (a \div GCD(a, b)) * b

\* "if total_points_str and total_points_str.upper() != 'N/A'": float or None
ParseTotalPoints(t) ==
    IF t # <<>> /\ Upper(t) # <<"N", "/", "A">> THEN ParseFloat(t) ELSE None

\* "if score is not None and total_points": total_points is truthy when it
\* is a number other than 0
PercentageOf(score, total_points) ==
    IF score # None /\ total_points # None /\ total_points[1] # 0
      THEN Some(Percentage(score[1], total_points[1]))
      ELSE None

\* a dispatch that tries the exempt marker before the others
ScoreAndStatus_ExemptFirst(cells) ==
    LET raw == Upper(cells.raw_score)
    IN IF Contains(raw, <<"X">>) THEN [score |-> None, status |-> STATUS_EXEMPT]
       ELSE IF Contains(raw, <<"N", "H", "I">>) THEN [score |-> Some(0), status |-> STATUS_NHI]
       ELSE IF Contains(raw, <<"T", "L", "T", "C">>) THEN [score |-> Some(0), status |-> STATUS_TLTC]
       ELSE IF Contains(raw, <<"S", "B", "F">>) THEN [score |-> Some(0), status |-> STATUS_SBF]
       ELSE [score |-> None, status |-> STATUS_NYG]

\* the score and status of a raw score text; status "ValueError" when the
\* SBF score cell does not parse (the row is then dropped by the outer except)
ScoreAndStatus(cells) ==
    LET raw == Upper(cells.raw_score)
    IN IF Contains(raw, <<"N", "H", "I">>) THEN [score |-> Some(0), status |-> STATUS_NHI]
       ELSE IF Contains(raw, <<"T", "L", "T", "C">>) THEN [score |-> Some(0), status |-> STATUS_TLTC]
       ELSE IF Contains(raw, <<"X">>) THEN [score |-> None, status |-> STATUS_EXEMPT]
       ELSE IF Contains(raw, <<"S", "B", "F">>)
         THEN IF cells.ncells > 7
                THEN IF ParseFloat(cells.cell7) # None
                       THEN [score |-> ParseFloat(cells.cell7), status |-> STATUS_SBF]
                       ELSE [score |-> None, status |-> "ValueError"]
                ELSE [score |-> Some(0), status |-> STATUS_SBF]
       ELSE IF Contains(raw, <<"N", "Y", "G">>) \/ cells.raw_score = <<>>
         THEN [score |-> None, status |-> STATUS_NYG]
       ELSE IF ParseFloat(cells.raw_score) # None
         THEN [score |-> ParseFloat(cells.raw_score), status |-> STATUS_SCORED]
         ELSE [score |-> None, status |-> STATUS_NYG]

\* _parse_assignment(cells): <<>> for None, <<assignment>> otherwise
ParseAssignment(cells) ==
    IF cells.title = ""
      THEN <<>>
      ELSE LET ss == ScoreAndStatus(cells)
               total_points == ParseTotalPoints(cells.total_points_str)
           IN IF ss.status = "ValueError"
                THEN <<>>
                ELSE <<[title |-> cells.title,
                        category |-> cells.category,
                        raw_score |-> cells.raw_score,
                        score |-> ss.score,
                        total_points |-> total_points,
                        status |-> ss.status,
                        percentage |-> PercentageOf(ss.score, total_points)]>>

\* a loop that gives up at the first row that yields no assignment
RECURSIVE ParseRows_StopAtBad(_)
ParseRows_StopAtBad(rows) ==
    IF rows = <<>> THEN <<>>
    ELSE LET a == IF Head(rows).ncells >= 6 THEN ParseAssignment(Head(rows)) ELSE <<>>
         IN IF a = <<>> THEN <<>> ELSE a \o ParseRows_StopAtBad(Tail(rows))

\* "for row in rows: if len(cells) >= 6: ... if assignment: append"
RECURSIVE ParseRows(_)
ParseRows(rows) ==
    IF rows = <<>> THEN <<>>
    ELSE (IF Head(rows).ncells >= 6 THEN ParseAssignment(Head(rows)) ELSE <<>>)
         \o ParseRows(Tail(rows))

CountedStatuses_All ==
    {STATUS_SCORED, STATUS_NHI, STATUS_SBF, STATUS_TLTC, STATUS_NYG, STATUS_EXEMPT}

\* "if assignment['status'] in [STATUS_SCORED, STATUS_NHI, STATUS_SBF, STATUS_TLTC]"
CountedStatuses == {STATUS_SCORED, STATUS_NHI, STATUS_SBF, STATUS_TLTC}

\* the earned and possible points one assignment adds to category cat
EarnedOf(a, cat) ==
    IF Upper(a.category) = cat /\ a.status \in CountedStatuses /\ a.score # None
      THEN a.score[1] ELSE 0

PossibleOf(a, cat) ==
    IF Upper(a.category) = cat /\ a.status \in CountedStatuses
         /\ a.total_points # None /\ a.total_points[1] # 0
      THEN a.total_points[1] ELSE 0

RECURSIVE SumEarned(_, _)
SumEarned(as, cat) ==
    IF as = <<>> THEN 0 ELSE EarnedOf(Head(as), cat) + SumEarned(Tail(as), cat)

RECURSIVE SumPossible(_, _)
SumPossible(as, cat) ==
    IF as = <<>> THEN 0 ELSE PossibleOf(Head(as), cat) + SumPossible(Tail(as), cat)

\* "if stats['possible'] > 0: round(earned / possible * 100, 2) else None"
CategoryPercentage(earned, possible) ==
    IF possible > 0 THEN Some(Percentage(earned, possible)) ELSE None

\* _calculate_category_stats
CalculateCategoryStats(as) ==
    [cat \in DOMAIN CATEGORY_WEIGHTS |->
        [earned |-> SumEarned(as, cat),
         possible |-> SumPossible(as, cat),
         percentage |-> CategoryPercentage(SumEarned(as, cat), SumPossible(as, cat))]]

\* "if stats['possible'] > 0": the category takes part in the weighting
Contributes(stats) == stats.possible > 0

\* _calculate_weighted_percentage: sum of earned/possible * weight over the
\* contributing categories, divided by the sum of their weights, times 100,
\* rounded to 2 decimals; as one fraction over the least common multiple of
\* the possibles
CalculateWeightedPercentage(cs) ==
    LET C == {c \in DOMAIN cs : Contributes(cs[c])}
        p(c) == IF c \in C THEN cs[c].possible ELSE 1
        e(c) == IF c \in C THEN cs[c].earned ELSE 0
        w(c) == IF c \in C THEN CATEGORY_WEIGHTS[c] ELSE 0
        total_weight == w(PRACTICE) + w(PROCESS) + w(PRODUCT)
        den == LCM(LCM(p(PRACTICE), p(PROCESS)), p(PRODUCT))
        weighted_sum == e(PRACTICE) * w(PRACTICE) * (den \div p(PRACTICE))
                          + e(PROCESS) * w(PROCESS) * (den \div p(PROCESS))
                          + e(PRODUCT) * w(PRODUCT) * (den \div p(PRODUCT))
    IN IF total_weight > 0 THEN Some(RoundDiv(weighted_sum, den * total_weight)) ELSE None

\* the rows of the model: the texts of the cells _parse_assignment reads
Row(n, title, category, raw, total, c7) ==
    [ncells |-> n, title |-> title, category |-> category, raw_score |-> raw,
     total_points_str |-> total, cell7 |-> c7]

RawScoreTexts == {<<"9", "0">>, <<"8", ".", "5">>, <<"-", "5">>, <<"n", "h", "i">>, <<"X">>, <<>>}

TotalPointsTexts == {<<"1", "0", "0">>, <<"0">>, <<"-", "1", "0">>, <<"N", "/", "A">>}

Rows ==
    {Row(6, "HW", <<"P", "r", "o", "d", "u", "c", "t">>, raw, total, <<>>) :
        raw \in RawScoreTexts, total \in TotalPointsTexts}
    \cup {Row(6, "HW", PRACTICE, <<"9", "0">>, <<"1", "0", "0">>, <<>>),
          Row(6, "HW", PRACTICE, <<"-", "5">>, <<"1", "0", "0">>, <<>>),
          Row(6, "HW", PRACTICE, <<"9", "0">>, <<"-", "1", "0">>, <<>>),
          Row(6, "HW", <<"P", "r", "o", "c", "e", "s", "s">>, <<"9", "0">>, <<"1", "0", "0">>, <<>>),
          Row(6, "HW", <<"P", "r", "o", "c", "e", "s", "s">>, <<"N", "H", "I">>, <<"0">>, <<>>),
          Row(6, "HW", <<"H", "o", "m", "e", "w", "o", "r", "k">>, <<"9", "0">>, <<"1", "0", "0">>, <<>>),
          Row(8, "HW", PRODUCT, <<"S", "B", "F">>, <<"1", "0", "0">>, <<"4", "0">>),
          Row(8, "HW", PRODUCT, <<"S", "B", "F">>, <<"1", "0", "0">>, <<"a", "b", "c">>),
          Row(8, "HW", PRODUCT, <<"9", "0">>, <<"1", "0", "0">>, <<"a", "b", "c">>),
          Row(6, "HW", PRODUCT, <<"S", "B", "F">>, <<"1", "0", "0">>, <<>>),
          Row(6, "HW", PRODUCT, <<"T", "L", "T", "C">>, <<"1", "0", "0">>, <<>>),
          Row(6, "HW", PRODUCT, <<"N", "Y", "G">>, <<"1", "0", "0">>, <<>>),
          Row(6, "", PRODUCT, <<"9", "0">>, <<"1", "0", "0">>, <<>>),
          Row(5, "HW", PRODUCT, <<"9", "0">>, <<"1", "0", "0">>, <<>>),
          Row(6, "HW", PRODUCT, <<"T", "L", "T", "C", " ", "N", "H", "I">>, <<"1", "0", "0">>, <<>>),
          Row(6, "HW", PRODUCT, <<"X", " ", "T", "L", "T", "C">>, <<"1", "0", "0">>, <<>>),
          Row(6, "HW", PRODUCT, <<"S", "B", "F", " ", "X">>, <<"1", "0", "0">>, <<>>),
          Row(6, "HW", PRODUCT, <<"N", "Y", "G", " ", "S", "B", "F">>, <<"1", "0", "0">>, <<>>),
          Row(6, "HW", PRODUCT, <<"a", "b", "c">>, <<"1", "0", "0">>, <<>>)}

CourseInputs ==
    /\ table_rows \in SeqsUpTo(Rows, MaxAssignments)
    /\ assignments = <<>>
    /\ category_stats = <<>>
    /\ overall_percentage = None
    /\ course_pc = "table"

\* _parse_course from the table's rows to the weighted percentage
ParseCourseTable ==
    /\ course_pc = "table"
    /\ LET parsed == ParseRows(table_rows)
           stats == CalculateCategoryStats(parsed)
       IN /\ assignments' = parsed
          /\ category_stats' = stats
          /\ overall_percentage' = CalculateWeightedPercentage(stats)
    /\ course_pc' = "parsed"
    /\ UNCHANGED <<table_rows, mergeVars, coordVars, pairVars, detailVars, extraVars, clientVars, pc, callNo, loginVars, fetchVars>>

NextCourse == ParseCourseTable

CourseInit == ClientInit /\ MergeParked /\ CoordParked /\ PairParked /\ DetailParked /\ ExtraParked /\ CourseInputs

SpecCourse == CourseInit /\ [][NextCourse]_vars

\* C8: every parsed assignment with a score and total points greater than 0
\* has percentage round(score / total_points * 100, 2); every other one
\* (no score, no total points, total points zero or below zero) has none.
C8_AssignmentPercentage ==
    course_pc = "parsed" =>
        \A i \in 1..Len(assignments) :
            LET a == assignments[i]
            IN IF a.score # None /\ a.total_points # None /\ a.total_points[1] > 0
                 THEN a.percentage = Some(Percentage(a.score[1], a.total_points[1]))
                 ELSE a.percentage = None

\* C9: for each category, the percentage is null exactly when the accumulated
\* possible points are 0, and a percentage that is not null is at least 0.
C9_CategoryPercentage ==
    course_pc = "parsed" =>
        \A cat \in DOMAIN category_stats :
            /\ (category_stats[cat].percentage = None)
                  <=> (category_stats[cat].possible = 0)
            /\ category_stats[cat].percentage # None
                  => category_stats[cat].percentage[1] >= 0

\* C10: the weighted overall percentage is null exactly when every category
\* has zero possible points.
C10_WeightedNullness ==
    course_pc = "parsed" =>
        ((overall_percentage = None)
            <=> (\A cat \in DOMAIN category_stats : category_stats[cat].possible = 0))

\* the points an assignment is said to add to category cat: its score and its
\* total points when its status is Scored, NHI, SBF or TLTC and its category
\* is cat, nothing otherwise
C11_Adds(a, cat) ==
    /\ a.status \in {"Scored", "NHI", "SBF", "TLTC"}
    /\ Upper(a.category) = cat

RECURSIVE C11_Earned(_, _)
C11_Earned(as, cat) ==
    IF as = <<>> THEN 0
    ELSE (IF C11_Adds(Head(as), cat) /\ Head(as).score # None
            THEN Head(as).score[1] ELSE 0) + C11_Earned(Tail(as), cat)

RECURSIVE C11_Possible(_, _)
C11_Possible(as, cat) ==
    IF as = <<>> THEN 0
    ELSE (IF C11_Adds(Head(as), cat) /\ Head(as).total_points # None
            THEN Head(as).total_points[1] ELSE 0) + C11_Possible(Tail(as), cat)

\* C11: the earned and possible points of each category are the sums of the
\* scores and total points of the assignments of that category whose status is
\* Scored, NHI, SBF or TLTC; assignments with status NYG or Exempt and
\* assignments of any other category add nothing to any category.
C11_CategoryAccumulation ==
    course_pc = "parsed" =>
        \A cat \in {PRACTICE, PROCESS, PRODUCT} :
            /\ category_stats[cat].earned = C11_Earned(assignments, cat)
            /\ category_stats[cat].possible = C11_Possible(assignments, cat)

\* a not-yet-graded assignment with total points next to a scored one of the
\* same category: only the scored one is counted
C11_Witness ==
    /\ course_pc = "parsed"
    /\ Len(assignments) = 2
    /\ assignments[1].status = STATUS_NYG
    /\ assignments[1].total_points = Some(1000)
    /\ Upper(assignments[1].category) = PRODUCT
    /\ assignments[2].status = STATUS_SCORED
    /\ Upper(assignments[2].category) = PRODUCT
    /\ category_stats[PRODUCT].possible = 1000
    /\ category_stats[PRODUCT].earned = 900

(***************************************************************************)
(* HACDataUpdateCoordinator._async_update_data.                            *)
(* A dict is a function from its keys; a key the dict lacks is outside its *)
(* DOMAIN.  fetch_grades() gives an error dict or a dict with a non-empty  *)
(* quarters map; the session or client construction of the update may also *)
(* raise before the fetch gives anything.                                  *)
(***************************************************************************)
MaxCourses == 1

\* values of data.get("last_updated"): datetime.now(timezone.utc) of the fetch
Stamps == {Some(1), Some(2)}

\* a period's record as _fetch_quarter_grades returns it
PeriodRecords ==
    {[courses |-> cs, overall_summary |-> [course_count |-> Len(cs)]] :
        cs \in SeqsUpTo(CourseNames, MaxCourses)}

\* quarters_data of fetch_grades: the periods stored, at least one
QuartersMaps ==
    UNION {[S -> PeriodRecords] : S \in (SUBSET QuarterSet) \ {{}}}

FetchErrors == {"Login failed", "No quarter data could be fetched"}

\* what "data = await self._client.fetch_grades()" gives
FetchOutcomes ==
    {[kind |-> "raised"]}
    \cup {[kind |-> "error", error |-> e] : e \in FetchErrors}
    \cup {[kind |-> "ok", quarters |-> m, last_updated |-> t, student_id |-> s] :
            m \in QuartersMaps, t \in Stamps, s \in {student_id, OtherStudent}}

\* the "empty structure" returned when the configured period is not found,
\* without its timestamp
PlaceholderData_NoStamp(data, quarter) ==
    [courses |-> <<>>,
     overall_summary |-> [course_count |-> 0,
                          gpa_like_average |-> None,
                          weighted_gpa_like_average |-> None,
                          latest_update_date |-> None,
                          days_since_latest_update |-> None],
     last_updated |-> None,
     student_id |-> data.student_id,
     quarter |-> quarter]

\* the "empty structure" returned when the configured period is not found
PlaceholderData(data, quarter) ==
    [courses |-> <<>>,
     overall_summary |-> [course_count |-> 0,
                          gpa_like_average |-> None,
                          weighted_gpa_like_average |-> None,
                          latest_update_date |-> None,
                          days_since_latest_update |-> None],
     last_updated |-> data.last_updated,
     student_id |-> data.student_id,
     quarter |-> quarter]

\* flattened_data
FlattenedData(data, quarter) ==
    [courses |-> data.quarters[quarter].courses,
     overall_summary |-> data.quarters[quarter].overall_summary,
     last_updated |-> data.last_updated,
     student_id |-> data.student_id,
     quarter |-> quarter,
     all_quarters |-> data.quarters]

CoordInputs ==
    /\ coord_quarter \in QuarterSet
    /\ fetch_data = EmptyMap
    /\ update_outcome = "pending"
    /\ update_data = EmptyMap

\* one _async_update_data() call, from the fetch to the return or the raise;
\* the call keeps nothing of its own from one update to the next
AsyncUpdateData ==
    /\ update_outcome = "pending"
    /\ \E data \in FetchOutcomes :
          /\ fetch_data' = data
          /\ IF data.kind \in {"raised", "error"}
               THEN /\ update_outcome' = "UpdateFailed"
                    /\ update_data' = EmptyMap
               ELSE /\ update_outcome' = "returned"
                    /\ update_data' =
                          IF coord_quarter \in DOMAIN data.quarters
                            THEN FlattenedData(data, coord_quarter)
                            ELSE PlaceholderData(data, coord_quarter)
    /\ UNCHANGED <<coord_quarter, mergeVars, courseVars, pairVars, detailVars, extraVars, clientVars, pc, callNo,
                   loginVars, fetchVars>>

NextCoord == AsyncUpdateData

CoordInit == ClientInit /\ MergeParked /\ CourseParked /\ PairParked /\ DetailParked /\ ExtraParked /\ CoordInputs

SpecCoord == CoordInit /\ [][NextCoord]_vars

\* C12: every dict returned by _async_update_data has the configured period's
\* courses and summary at its top level whenever the fetch has that period,
\* and has the key all_quarters holding the quarters map of that fetch.
C12_ResultKeepsAllQuarters ==
    update_outcome = "returned" =>
        /\ "all_quarters" \in DOMAIN update_data
        /\ update_data.all_quarters = fetch_data.quarters
        /\ coord_quarter \in DOMAIN fetch_data.quarters =>
              /\ update_data.courses = fetch_data.quarters[coord_quarter].courses
              /\ update_data.overall_summary
                    = fetch_data.quarters[coord_quarter].overall_summary

\* C13: the update raises UpdateFailed exactly when the fetch gave an error or
\* raised; when the fetch succeeded without the configured period the update
\* returns an empty course list, course_count 0 and null averages, with the
\* fetch's timestamp and student id.
C13_MissingPeriodPlaceholder ==
    update_outcome \in {"returned", "UpdateFailed"} =>
        /\ (update_outcome = "UpdateFailed") <=> (fetch_data.kind \in {"raised", "error"})
        /\ (fetch_data.kind = "ok" /\ coord_quarter \notin DOMAIN fetch_data.quarters) =>
              /\ update_outcome = "returned"
              /\ update_data.courses = <<>>
              /\ update_data.overall_summary.course_count = 0
              /\ update_data.overall_summary.gpa_like_average = None
              /\ update_data.overall_summary.weighted_gpa_like_average = None
              /\ update_data.last_updated = fetch_data.last_updated
              /\ update_data.student_id = fetch_data.student_id

\* the fetch stored two periods with courses, but not the configured one
C13_Witness ==
    /\ update_outcome = "returned"
    /\ fetch_data.kind = "ok"
    /\ coord_quarter = "Q2"
    /\ DOMAIN fetch_data.quarters = {"Q1", "Q3"}
    /\ fetch_data.quarters["Q1"].courses # <<>>
    /\ fetch_data.last_updated = Some(2)
    /\ update_data.courses = <<>>
    /\ update_data.last_updated = Some(2)

(***************************************************************************)
(* Two coordinators, one per subject, whose fetches interleave.  Each      *)
(* coordinator creates its own session and its own HACClient; a step of a  *)
(* fetch is one await of fetch_grades: the login, or one period.  What the *)
(* backend answers to a subject's calls is fixed beforehand, so that the   *)
(* outcome of running alone is defined.                                    *)
(***************************************************************************)
Subjects == {"A", "B"}

\* self.student_id of the subject's coordinator
SubjectStudent(s) == IF s = "A" THEN student_id ELSE OtherStudent

\* one client object used by every coordinator
ClientOf_Shared(s) == "A"

\* "if self._client is None: self._client = HACClient(...)": the client of
\* the subject's coordinator
ClientOf(s) == s

\* HACClient.__init__
NewClient ==
    [cookies |-> FALSE, detected_student_id |-> "None",
     initial_html |-> NoHtml, initial_quarter |-> "None"]

NewFetch == [pc |-> "start", qi |-> 1, quarters_data |-> EmptyMap, result |-> NoResult]

\* the answers of the backend to a subject: the document of its login (NoHtml:
\* the login fails), the banner's student id, the document of each period
\* (NoHtml: the period's automation call fails)
SubjectInputs(s) ==
    [login : {NoHtml} \cup {GoodHtml(0, SubjectStudent(s), sel) : sel \in {"None", "Q2"}},
     banner : {"None", SubjectStudent(s)},
     docs : {[q \in QuarterSet |->
                IF q \in F THEN NoHtml ELSE GoodHtml(0, SubjectStudent(s), q)] :
             F \in SUBSET {"Q1", "Q2"}}]

\* the client after a successful login with these answers
LoginOn(cl, inp) ==
    [cookies |-> TRUE,
     detected_student_id |->
        IF inp.banner # "None" THEN inp.banner ELSE cl.detected_student_id,
     initial_html |-> inp.login,
     initial_quarter |-> DetectQuarter(inp.login)]

\* the document _fetch_quarter_grades works on: the cached one or a fetched one
PeriodHtml(cl, inp, quarter) ==
    IF HtmlTruthy(cl.initial_html) /\ cl.initial_quarter = quarter
      THEN cl.initial_html
      ELSE inp.docs[quarter]

\* identity check and extraction of _fetch_quarter_grades for student sid
PeriodOutcome(cl, sid, html) ==
    IF ~HtmlTruthy(html) \/ html.bad
      THEN [error |-> TRUE, detected |-> cl.detected_student_id]
      ELSE IF cl.detected_student_id = "None" /\ html.sid # "None"
             THEN [error |-> (sid # html.sid), detected |-> html.sid]
             ELSE [error |-> FALSE, detected |-> cl.detected_student_id]

\* one iteration of "for quarter in quarters": the client and quarters_data after it
PeriodStep(cl, inp, sid, quarter, qd) ==
    LET html == PeriodHtml(cl, inp, quarter)
        out == PeriodOutcome(cl, sid, html)
    IN [client |-> [cl EXCEPT !.detected_student_id = out.detected],
        quarters_data |->
            IF out.error THEN qd
            ELSE (quarter :> [sid |-> html.sid, sel |-> html.sel]) @@ qd]

\* the dict fetch_grades returns after the loop
PairResult(cl, sid, qd) ==
    IF DOMAIN qd = {}
      THEN ErrorResult("No quarter data could be fetched")
      ELSE [kind |-> "ok", error |-> "", quarters |-> qd,
            student_id |-> IF cl.detected_student_id # "None"
                             THEN cl.detected_student_id ELSE sid]

PairInputs ==
    /\ pair_inputs \in [Subjects -> UNION {SubjectInputs(s) : s \in Subjects}]
    /\ \A s \in Subjects : pair_inputs[s] \in SubjectInputs(s)
    /\ pair_client = [s \in Subjects |-> NewClient]
    /\ pair_fetch = [s \in Subjects |-> NewFetch]

\* fetch_grades up to the loop: "if not self._cookies: if not await self.login()"
PairLogin(s) ==
    LET c == ClientOf(s)
        cl == pair_client[c]
        inp == pair_inputs[s]
    IN /\ pair_fetch[s].pc = "start"
       /\ IF cl.cookies
            THEN /\ pair_fetch' = [pair_fetch EXCEPT ![s].pc = "quarters"]
                 /\ pair_client' = pair_client
            ELSE IF HtmlTruthy(inp.login)
                   THEN /\ pair_client' = [pair_client EXCEPT ![c] = LoginOn(cl, inp)]
                        /\ pair_fetch' = [pair_fetch EXCEPT ![s].pc = "quarters"]
                   ELSE /\ pair_client' = pair_client
                        /\ pair_fetch' = [pair_fetch EXCEPT
                                            ![s].pc = "done",
                                            ![s].result = ErrorResult("Login failed")]
       /\ UNCHANGED <<pair_inputs, mergeVars, courseVars, coordVars, detailVars, extraVars, clientVars, pc, callNo,
                      loginVars, fetchVars>>

\* one period of the loop
PairQuarter(s) ==
    LET c == ClientOf(s)
        f == pair_fetch[s]
    IN /\ f.pc = "quarters"
       /\ f.qi <= Len(quarters)
       /\ LET step == PeriodStep(pair_client[c], pair_inputs[s], SubjectStudent(s),
                                 quarters[f.qi], f.quarters_data)
          IN /\ pair_client' = [pair_client EXCEPT ![c] = step.client]
             /\ pair_fetch' = [pair_fetch EXCEPT ![s].qi = f.qi + 1,
                                                 ![s].quarters_data = step.quarters_data]
       /\ UNCHANGED <<pair_inputs, mergeVars, courseVars, coordVars, detailVars, extraVars, clientVars, pc, callNo,
                      loginVars, fetchVars>>

\* after the loop
PairFinish(s) ==
    LET f == pair_fetch[s]
    IN /\ f.pc = "quarters"
       /\ f.qi > Len(quarters)
       /\ pair_fetch' = [pair_fetch EXCEPT
                           ![s].pc = "done",
                           ![s].result = PairResult(pair_client[ClientOf(s)],
                                                    SubjectStudent(s), f.quarters_data)]
       /\ UNCHANGED <<pair_inputs, pair_client, mergeVars, courseVars, coordVars, detailVars,
                      extraVars, clientVars,
                      pc, callNo, loginVars, fetchVars>>

NextPair ==
    \E s \in Subjects :
        \/ PairLogin(s)
        \/ PairQuarter(s)
        \/ PairFinish(s)

PairInit == ClientInit /\ MergeParked /\ CourseParked /\ CoordParked /\ DetailParked /\ ExtraParked /\ PairInputs

SpecPair == PairInit /\ [][NextPair]_vars

\* the loop of a fetch running alone, from period number qi on
RECURSIVE AloneLoop(_, _, _, _, _)
AloneLoop(cl, inp, sid, i, qd) ==
    IF i > Len(quarters)
      THEN PairResult(cl, sid, qd)
      ELSE LET step == PeriodStep(cl, inp, sid, quarters[i], qd)
           IN AloneLoop(step.client, inp, sid, i + 1, step.quarters_data)

\* the result of a subject's first fetch when no other fetch runs
AloneResult(s) ==
    IF HtmlTruthy(pair_inputs[s].login)
      THEN AloneLoop(LoginOn(NewClient, pair_inputs[s]), pair_inputs[s],
                     SubjectStudent(s), 1, EmptyMap)
      ELSE ErrorResult("Login failed")

C14_SameAsAlone ==
    \A s \in DOMAIN pair_fetch :
        pair_fetch[s].pc = "done" => pair_fetch[s].result = AloneResult(s)

C14_OwnClientOnly ==
    \A s \in DOMAIN pair_client :
        pair_client'[s] # pair_client[s] =>
            /\ pair_fetch'[s] # pair_fetch[s]
            /\ \A t \in DOMAIN pair_fetch \ {s} : pair_fetch'[t] = pair_fetch[t]

\* C14: with the fetches of two subjects interleaved in any way, a client's
\* cookies, detected identity, cached document and detected period change only
\* in a step of its own subject's fetch, and the result of each subject's
\* fetch is the one it gets when it runs alone.
C14_SubjectIsolation == []C14_SameAsAlone /\ [][C14_OwnClientOnly]_vars

\* both fetches finished with a result, B having logged in between A's login
\* and A's cached period
C14_Witness ==
    /\ DOMAIN pair_fetch = Subjects
    /\ pair_fetch["A"].pc = "done"
    /\ pair_fetch["B"].pc = "done"
    /\ pair_fetch["A"].result.kind = "ok"
    /\ pair_fetch["B"].result.kind = "ok"
    /\ pair_client["A"].initial_quarter = "Q2"
    /\ pair_client["B"].initial_quarter = "None"
    /\ "Q2" \in DOMAIN pair_fetch["A"].result.quarters
    /\ pair_fetch["A"].result.quarters["Q2"].sid = student_id
    /\ pair_fetch["B"].result.quarters["Q3"].sid = OtherStudent

(***************************************************************************)
(* sensor._format_missing_details.                                         *)
(* Only the lengths of the texts matter: an assignment is its status and   *)
(* the lengths of its cleaned course name, its title and its due date; the *)
(* returned string is the list of the lengths of the item texts kept and   *)
(* the length of the summary appended, and its length is computed from     *)
(* these parts, not from the function's own running count.  The title,     *)
(* course name and due date of the model hold no " NHI:"-like marker, so   *)
(* the status found in a removed item's text is the item's own.            *)
(***************************************************************************)
MaxItems == 3

max_length == 255

max_title_len == 80

max_course_len == 20

\* len(" | ")
SepLen == 3

\* "for status in ['NHI', 'TLTC', 'NYG', 'SBF']"
SummaryOrder == <<"NHI", "TLTC", "NYG", "SBF">>

\* status_map: the number of characters of the emoji, and the priority
EmojiLen == ("NHI" :> 5) @@ ("TLTC" :> 2) @@ ("NYG" :> 0) @@ ("SBF" :> 4)

Priority == ("NHI" :> 1) @@ ("TLTC" :> 2) @@ ("NYG" :> 3) @@ ("SBF" :> 4)

\* len(label)
LabelLen == ("NHI" :> 3) @@ ("TLTC" :> 4) @@ ("NYG" :> 3) @@ ("SBF" :> 3)

\* "if len(t) > m: t = t[:m-3] + '...'"
Clip(n, m) == IF n > m THEN (m - 3) + 3 ELSE n

\* len(f"{emoji} {label}: {course_name_short}: {title}: {due_date}")
ItemTextLen(a) ==
    EmojiLen[a.status] + 1 + LabelLen[a.status] + 2
        + Clip(a.course_len, max_course_len) + 2
        + Clip(a.title_len, max_title_len) + 2
        + a.due_len

\* "if status in status_map": the items collected, in document order
RECURSIVE CollectItems(_)
CollectItems(as) ==
    IF as = <<>> THEN <<>>
    ELSE (IF Head(as).status \in DOMAIN Priority
            THEN <<[status |-> Head(as).status, len |-> ItemTextLen(Head(as))]>>
            ELSE <<>>)
         \o CollectItems(Tail(as))

\* all_items.sort(key=lambda x: x[0]): a stable sort by priority
SortByPriority(its) ==
    SelectSeq(its, LAMBDA x : Priority[x.status] = 1)
        \o SelectSeq(its, LAMBDA x : Priority[x.status] = 2)
        \o SelectSeq(its, LAMBDA x : Priority[x.status] = 3)
        \o SelectSeq(its, LAMBDA x : Priority[x.status] = 4)

NoneTruncated == [st \in DOMAIN Priority |-> 0]

\* a first pass that counts no separator
SeparatorLen_None(kept) == 0

\* "separator = ' | ' if items else ''"
SeparatorLen(kept) == IF kept # <<>> THEN SepLen ELSE 0

\* the first pass: the items kept, the running length, the counts cut off
RECURSIVE FirstPass(_, _, _, _)
FirstPass(its, kept, current_length, truncated) ==
    IF its = <<>>
      THEN [kept |-> kept, current_length |-> current_length, truncated |-> truncated]
      ELSE LET it == Head(its)
               new_length == current_length + SeparatorLen(kept) + it.len
           IN IF new_length > max_length
                THEN FirstPass(Tail(its), kept, current_length,
                               [truncated EXCEPT ![it.status] = @ + 1])
                ELSE FirstPass(Tail(its), Append(kept, it), new_length, truncated)

\* len(str(n)) for n >= 0
RECURSIVE DigitsOf(_)
DigitsOf(n) == IF n < 10 THEN 1 ELSE 1 + DigitsOf(n \div 10)

\* len(f"{count} more {status}")
PartLen(count, st) == DigitsOf(count) + 6 + LabelLen[st]

\* len(" | " + " and ".join(summary_parts))
SummaryLen(truncated) ==
    LET parts == SelectSeq(SummaryOrder, LAMBDA st : truncated[st] > 0)
    IN SepLen + SumSeq([i \in 1..Len(parts) |-> PartLen(truncated[parts[i]], parts[i])])
         + (IF Len(parts) > 1 THEN 5 * (Len(parts) - 1) ELSE 0)

\* len(f" | {total_truncated} more")
ShortSummaryLen(total_truncated) == SepLen + DigitsOf(total_truncated) + 5

\* "while test_length > max_length and items": drop items from the end
RECURSIVE DropUntilFits(_, _, _)
DropUntilFits(kept, current_length, truncated) ==
    IF current_length + SummaryLen(truncated) > max_length /\ kept # <<>>
      THEN LET removed_item == kept[Len(kept)]
               rest == SubSeq(kept, 1, Len(kept) - 1)
           IN DropUntilFits(rest,
                            current_length - removed_item.len
                                - (IF rest # <<>> THEN SepLen ELSE 0),
                            [truncated EXCEPT ![removed_item.status] = @ + 1])
      ELSE [kept |-> kept, current_length |-> current_length, truncated |-> truncated]

\* the abbreviated version and its loop
RECURSIVE DropUntilShortFits(_, _, _)
DropUntilShortFits(kept, current_length, total_truncated) ==
    IF current_length + ShortSummaryLen(total_truncated) > max_length /\ kept # <<>>
      THEN LET removed_item == kept[Len(kept)]
               rest == SubSeq(kept, 1, Len(kept) - 1)
           IN DropUntilShortFits(rest,
                                 current_length - removed_item.len
                                     - (IF rest # <<>> THEN SepLen ELSE 0),
                                 total_truncated + 1)
      ELSE [kept |-> kept, summary |-> ShortSummaryLen(total_truncated)]

TotalTruncated(truncated) ==
    truncated["NHI"] + truncated["TLTC"] + truncated["NYG"] + truncated["SBF"]

\* _format_missing_details: the parts of the string returned
FormatMissingDetails(as) ==
    LET its == SortByPriority(CollectItems(as))
        first == FirstPass(its, <<>>, 0, NoneTruncated)
        fitted == DropUntilFits(first.kept, first.current_length, first.truncated)
        short == DropUntilShortFits(fitted.kept, fitted.current_length,
                                    TotalTruncated(fitted.truncated))
    IN IF its = <<>>
         THEN [text |-> "No missing assignments", items |-> <<>>, summary |-> 0,
               collected |-> 0, first_pass |-> 0]
         ELSE IF TotalTruncated(first.truncated) = 0
                THEN [text |-> "", items |-> first.kept, summary |-> 0,
                      collected |-> Len(its), first_pass |-> Len(first.kept)]
                ELSE IF fitted.current_length + SummaryLen(fitted.truncated) > max_length
                       THEN [text |-> "", items |-> short.kept, summary |-> short.summary,
                             collected |-> Len(its), first_pass |-> Len(first.kept)]
                       ELSE [text |-> "", items |-> fitted.kept,
                             summary |-> SummaryLen(fitted.truncated),
                             collected |-> Len(its), first_pass |-> Len(first.kept)]

\* len() of the string returned: the fixed text, or " | ".join(items) + summary
StringLength(d) ==
    IF d.text # "" THEN Len(d.text)
    ELSE SumSeq([i \in 1..Len(d.items) |-> d.items[i].len])
           + (IF Len(d.items) > 1 THEN SepLen * (Len(d.items) - 1) ELSE 0)
           + d.summary

\* the lengths of course name, title and due date of the model's assignments
Shapes ==
    {[course_len |-> 1, title_len |-> 1, due_len |-> 0],
     [course_len |-> 5, title_len |-> 10, due_len |-> 10],
     [course_len |-> 25, title_len |-> 100, due_len |-> 10],
     [course_len |-> 25, title_len |-> 100, due_len |-> 140]}

MissingItems ==
    {[status |-> st, course_len |-> sh.course_len, title_len |-> sh.title_len,
      due_len |-> sh.due_len] :
        st \in {"NHI", "TLTC", "NYG", "SBF", "Scored"}, sh \in Shapes}

DetailInputs ==
    /\ all_items \in SeqsUpTo(MissingItems, MaxItems)
    /\ details = EmptyMap
    /\ details_pc = "data"

FormatDetails ==
    /\ details_pc = "data"
    /\ details' = FormatMissingDetails(all_items)
    /\ details_pc' = "formatted"
    /\ UNCHANGED <<all_items, mergeVars, courseVars, coordVars, pairVars, extraVars, clientVars, pc,
                   callNo, loginVars, fetchVars>>

NextDetail == FormatDetails

DetailInit ==
    ClientInit /\ MergeParked /\ CourseParked /\ CoordParked /\ PairParked /\ ExtraParked
        /\ DetailInputs

SpecDetail == DetailInit /\ [][NextDetail]_vars

\* C15: the string returned by _format_missing_details has at most 255
\* characters, also when items were cut off and a summary was appended.
C15_AtMost255 ==
    details_pc = "formatted" => StringLength(details) <= 255

\* two items fitted in the first pass, the third was cut off, and one more
\* was dropped to make room for the summary
C15_Witness ==
    /\ details_pc = "formatted"
    /\ details.collected = 3
    /\ details.first_pass = 2
    /\ Len(details.items) = 1
    /\ details.summary > 0
    /\ StringLength(details) > 100

(***************************************************************************)
(* Claims about the order of the steps of login() and fetch_grades(),      *)
(* under Spec.                                                             *)
(***************************************************************************)
\* a step that sends the automation call of an attempt
C16_EntersPost == pc # "login_post" /\ pc' = "login_post"

C16_ProbeDiscipline ==
    /\ C16_EntersPost =>
          IF attempt = 0
            THEN n_probe = 0 /\ n_probe' = n_probe
            ELSE n_probe' = n_probe + 1 /\ n_not_ready' = n_not_ready
    /\ n_post' = n_post + 1 => pc = "login_post" /\ n_probe' = n_probe
    /\ n_not_ready' = n_not_ready + 1 =>
          /\ attempt > 0
          /\ n_probe' = n_probe + 1
          /\ n_post' = n_post
          /\ sleeps' = Append(sleeps, retry_delays[attempt + 1])
          /\ attempt' = attempt + 1
          /\ pc' = "login_top"

\* C16: the first attempt of login() sends its automation call without a
\* liveness probe; every later attempt probes first and sends the call only
\* when that probe reported live; a probe that reports not live is followed
\* by the sleep of that attempt's scheduled delay and by the next attempt,
\* with no automation call.
C16_ProbeBeforeLaterAttempts == [][C16_ProbeDiscipline]_vars

\* attempt 0 failed with a transport error, the probe of attempt 1 was not
\* live, the probe of attempt 2 was live and its call is about to be sent
C16_Witness ==
    /\ pc = "login_post"
    /\ attempt = 2
    /\ n_post = 1
    /\ n_probe = 2
    /\ n_not_ready = 1
    /\ sleeps = <<5, 10>>

C17_LoginFirst ==
    /\ (pc = "quarters" \/ handled # <<>>) => cookies
    /\ handled = SubSeq(quarters, 1, Len(handled))
    /\ Len(handled) = qi - 1
    /\ result = ErrorResult("Login failed") =>
          /\ handled = <<>>
          /\ \A q \in QuarterSet : quarter_posts[q] = 0
    /\ (pc = "fg_ret" /\ result.kind = "ok") => handled = quarters

C17_FailedLoginEnds ==
    (pc = "login_ret" /\ login_result = "False") =>
        /\ pc' = "fg_ret"
        /\ result' = ErrorResult("Login failed")
        /\ handled' = <<>>
        /\ \A q \in QuarterSet : quarter_posts'[q] = 0

\* C17: no period is handled in fetch_grades unless a login of this client
\* has succeeded; a failed login ends the call with the login-failed error
\* and no period automation call; the periods are handled one after the
\* other in the order Q1, Q2, Q3, Q4.
C17_LoginThenPeriodsInOrder == []C17_LoginFirst /\ [][C17_FailedLoginEnds]_vars

\* a first call whose login succeeded handled the four periods in order
C17_Witness ==
    /\ pc = "fg_ret"
    /\ callNo = 1
    /\ cookies
    /\ result.kind = "ok"
    /\ handled = <<"Q1", "Q2", "Q3", "Q4">>

\* the period that _fetch_quarter_grades serves from the document of login
C18_Cached(q) == HtmlTruthy(initial_html) /\ initial_quarter = q

\* C18: in a fetch_grades call that handled the four periods, the period that
\* login detected in its non-empty document (if it is one of Q1..Q4) made no
\* automation call and each other period made exactly one; with no such
\* period, each of the four made exactly one.
C18_CachedPeriodNoCall ==
    handled = quarters =>
        /\ (HtmlTruthy(initial_html) /\ initial_quarter \in {"Q1", "Q2", "Q3", "Q4"}) =>
              /\ quarter_posts[initial_quarter] = 0
              /\ \A q \in {"Q1", "Q2", "Q3", "Q4"} \ {initial_quarter} : quarter_posts[q] = 1
        /\ initial_quarter \notin {"Q1", "Q2", "Q3", "Q4"} =>
              \A q \in {"Q1", "Q2", "Q3", "Q4"} : quarter_posts[q] = 1

\* login detected Q2: Q2 came from the cached document, the others were fetched
C18_Witness ==
    /\ pc = "fg_ret"
    /\ handled = quarters
    /\ initial_quarter = "Q2"
    /\ HtmlTruthy(initial_html)
    /\ quarter_posts = [q \in QuarterSet |-> IF q = "Q2" THEN 0 ELSE 1]

C19_AtMostOneCall ==
    /\ \A q \in QuarterSet : quarter_posts[q] <= 1
    /\ \A q \in failed : q \notin DOMAIN quarters_data
    /\ (pc = "fg_ret" /\ result.kind = "ok") => DOMAIN result.quarters \cap failed = {}
    /\ pc = "quarters" => n_post = 0 /\ n_probe = 0 /\ login_result = "None"

C19_FailureMovesOn ==
    (pc = "quarters" /\ failed' # failed) =>
        /\ pc' = "quarters"
        /\ qi' = qi + 1
        /\ failed' = failed \cup {quarters[qi]}
        /\ quarters_data' = quarters_data
        /\ loginVars' = loginVars

\* C19: a period makes at most one automation call; when the period's fetch
\* fails the period is left out of the result and the loop moves on to the
\* next period, with no second call for it and no call of login().
C19_NoRetryOfPeriod == []C19_AtMostOneCall /\ [][C19_FailureMovesOn]_vars

\* the Q1 call failed once, Q1 is missing from an otherwise good result
C19_Witness ==
    /\ pc = "fg_ret"
    /\ result.kind = "ok"
    /\ failed = {"Q1"}
    /\ ~mismatch_seen
    /\ quarter_posts["Q1"] = 1
    /\ DOMAIN result.quarters = {"Q2", "Q3", "Q4"}

\* the markers in the order of the rules, with the status each one gives
C20_Rules ==
    <<[marker |-> <<"N", "H", "I">>, status |-> "NHI"],
      [marker |-> <<"T", "L", "T", "C">>, status |-> "TLTC"],
      [marker |-> <<"X">>, status |-> "EXEMPT"],
      [marker |-> <<"S", "B", "F">>, status |-> "SBF"],
      [marker |-> <<"N", "Y", "G">>, status |-> "NYG"]>>

\* rule k matches the raw score text (the empty text matches the NYG rule)
C20_Matches(raw, k) ==
    \/ Contains(Upper(raw), C20_Rules[k].marker)
    \/ k = 5 /\ raw = <<>>

\* C20: the status of every parsed assignment is the one of the first rule, in
\* the order NHI, TLTC, Exempt (X), SBF, NYG-or-empty, that its raw score text
\* matches; a text matching none is Scored when it parses as a number and NYG
\* otherwise; NHI and TLTC carry score 0, Exempt and NYG carry no score.
C20_StatusPrecedence ==
    course_pc = "parsed" =>
        \A i \in 1..Len(assignments) :
            LET a == assignments[i]
                matching == {k \in 1..5 : C20_Matches(a.raw_score, k)}
            IN /\ matching # {} =>
                     a.status = C20_Rules[CHOOSE k \in matching :
                                             \A j \in matching : k <= j].status
               /\ matching = {} =>
                     a.status = IF ParseFloat(a.raw_score) # None THEN "Scored" ELSE "NYG"
               /\ a.status \in {"NHI", "TLTC"} => a.score = Some(0)
               /\ a.status \in {"EXEMPT", "NYG"} => a.score = None

\* a text with the TLTC and exempt markers is TLTC, one with the exempt and
\* SBF markers is exempt
C20_Witness ==
    /\ course_pc = "parsed"
    /\ Len(assignments) = 2
    /\ assignments[1].raw_score = <<"X", " ", "T", "L", "T", "C">>
    /\ assignments[1].status = STATUS_TLTC
    /\ assignments[1].score = Some(0)
    /\ assignments[2].raw_score = <<"S", "B", "F", " ", "X">>
    /\ assignments[2].status = STATUS_EXEMPT
    /\ assignments[2].score = None

(***************************************************************************)
(* The weighted overall percentage against the stated weights.             *)
(***************************************************************************)

\* the stated weights, in hundredths
C21_Weight == (PRACTICE :> 20) @@ (PROCESS :> 30) @@ (PRODUCT :> 50)

C21_Abs(n) == IF n < 0 THEN -n ELSE n

\* the fraction n / d in lowest terms, d > 0
C21_Reduce(n, d) ==
    LET g == GCD(C21_Abs(n), d)
    IN <<n \div g, d \div g>>

\* the sum, as a fraction in lowest terms, of weight * earned / possible over
\* the categories of cats that have possible > 0
RECURSIVE C21_WeightedSum(_, _)
C21_WeightedSum(cs, cats) ==
    IF cats = <<>> THEN <<0, 1>>
    ELSE LET rest == C21_WeightedSum(cs, Tail(cats))
             c == Head(cats)
         IN IF cs[c].possible > 0
              THEN LET t == C21_Reduce(C21_Weight[c] * cs[c].earned, cs[c].possible)
                   IN C21_Reduce(t[1] * rest[2] + rest[1] * t[2], t[2] * rest[2])
              ELSE rest

\* the sum of the weights of the categories of cats that have possible > 0
RECURSIVE C21_WeightSum(_, _)
C21_WeightSum(cs, cats) ==
    IF cats = <<>> THEN 0
    ELSE (IF cs[Head(cats)].possible > 0 THEN C21_Weight[Head(cats)] ELSE 0)
         + C21_WeightSum(cs, Tail(cats))

\* C21: the weighted overall percentage is the sum, over the categories with
\* possible > 0, of weight * earned / possible, divided by the sum of the
\* weights of those same categories, times 100 (rounded to 2 decimals), with
\* weights PRACTICE 0.20, PROCESS 0.30, PRODUCT 0.50; a course whose only
\* category with points is PRODUCT at 90/100 gets 90.0.
C21_WeightedOverall ==
    course_pc = "parsed" =>
        LET cats == <<PRACTICE, PROCESS, PRODUCT>>
            s == C21_WeightedSum(category_stats, cats)
            w == C21_WeightSum(category_stats, cats)
        IN /\ w > 0 => overall_percentage = Some(RoundDiv(s[1], s[2] * w))
           /\ (category_stats[PRACTICE].possible = 0
                 /\ category_stats[PROCESS].possible = 0
                 /\ category_stats[PRODUCT].possible = 1000
                 /\ category_stats[PRODUCT].earned = 900)
                => overall_percentage = Some(9000)

\* two categories with points and different ratios (PRACTICE 90/100 and
\* PRODUCT 8.5/100), the third without points: (0.2 * 0.9 + 0.5 * 0.085) / 0.7
C21_Witness ==
    /\ course_pc = "parsed"
    /\ category_stats[PRACTICE].possible = 1000
    /\ category_stats[PRACTICE].earned = 900
    /\ category_stats[PROCESS].possible = 0
    /\ category_stats[PRODUCT].possible = 1000
    /\ category_stats[PRODUCT].earned = 85
    /\ overall_percentage = Some(3179)

(***************************************************************************)
(* _calculate_overall_summary.                                             *)
(* hac_points_possible is the stripped text of the course's lblMaxPoints   *)
(* span (Some(text)) or None; a computed percentage is in hundredths and a *)
(* points number in tenths.  A date is kept as the number yyyymmdd, which  *)
(* orders as the dates do; the day count to now is kept as a token.        *)
(***************************************************************************)

\* the courses a merged list is made of: a placeholder, and graded records
\* over the computed percentages and the reported total points texts
MaxSummaryCourses == 3

ComputedPercentages == {None, Some(9000), Some(8050)}

PointsTexts == {None, Some(<<>>), Some(<<"1", "0", "0">>), Some(<<"0">>), Some(<<"a", "b", "c">>), Some(<<"-", "1", "0">>)}

SummaryCourses ==
    {Placeholder([course |-> "ENG", course_index |-> 0])} \cup
    {[ParseCourse([present |-> TRUE, name_elem |-> "MATH", rows |-> 2], 1)
         EXCEPT !.overall_percentage = p, !.hac_points_possible = h] :
        p \in ComputedPercentages, h \in PointsTexts}

\* "if course['hac_points_possible']: possible = float(...)": None when the
\* field is None or empty, or when float raises ValueError
PointsPossible(c) ==
    IF c.hac_points_possible # None /\ c.hac_points_possible[1] # <<>>
      THEN ParseFloat(c.hac_points_possible[1])
      ELSE None

\* a mean that counts every course, the ones without a percentage as well
GradeCount_All(cs) == Len(cs)

\* grade_count: "if course['overall_percentage'] is not None: grade_count += 1"
GradeCount(cs) == Cardinality({i \in 1..Len(cs) : cs[i].overall_percentage # None})

\* grade_sum
RECURSIVE GradeSum(_)
GradeSum(cs) ==
    IF cs = <<>> THEN 0
    ELSE (IF Head(cs).overall_percentage # None THEN Head(cs).overall_percentage[1] ELSE 0)
         + GradeSum(Tail(cs))

\* weighted_sum: earned_pct * possible of the courses with a percentage and
\* points that parse
RECURSIVE WeightedSum(_)
WeightedSum(cs) ==
    IF cs = <<>> THEN 0
    ELSE (IF Head(cs).overall_percentage # None /\ PointsPossible(Head(cs)) # None
            THEN Head(cs).overall_percentage[1] * PointsPossible(Head(cs))[1]
            ELSE 0)
         + WeightedSum(Tail(cs))

\* weighted_possible
RECURSIVE WeightedPossible(_)
WeightedPossible(cs) ==
    IF cs = <<>> THEN 0
    ELSE (IF Head(cs).overall_percentage # None /\ PointsPossible(Head(cs)) # None
            THEN PointsPossible(Head(cs))[1]
            ELSE 0)
         + WeightedPossible(Tail(cs))

\* most_recent_update: the latest hac_last_updated, None when there is none
RECURSIVE MostRecentUpdate(_)
MostRecentUpdate(cs) ==
    IF cs = <<>> THEN None
    ELSE LET rest == MostRecentUpdate(Tail(cs))
             d == Head(cs).hac_last_updated
         IN IF d = None THEN rest
            ELSE IF rest = None \/ d[1] > rest[1] THEN d ELSE rest

\* round(n / d, 2) of a quotient of hundredths, in hundredths
RoundQuotient(n, d) == RoundDiv(n, 10000 * d)

\* _calculate_overall_summary(courses)
CalculateOverallSummary(cs) ==
    IF cs = <<>>
      THEN [course_count |-> 0,
            gpa_like_average |-> None,
            weighted_gpa_like_average |-> None,
            latest_update_date |-> None,
            days_since_latest_update |-> None]
      ELSE [course_count |-> Len(cs),
            gpa_like_average |->
                IF GradeCount(cs) > 0
                  THEN Some(RoundQuotient(GradeSum(cs), GradeCount(cs)))
                  ELSE None,
            weighted_gpa_like_average |->
                IF WeightedPossible(cs) > 0
                  THEN Some(RoundQuotient(WeightedSum(cs), WeightedPossible(cs)))
                  ELSE None,
            latest_update_date |-> MostRecentUpdate(cs),
            days_since_latest_update |->
                IF MostRecentUpdate(cs) # None THEN Some("days") ELSE None]

SummaryInputs ==
    /\ summary_courses \in SeqsUpTo(SummaryCourses, MaxSummaryCourses)
    /\ overall_summary = EmptyMap
    /\ summary_pc = "courses"

\* overall_summary = self._calculate_overall_summary(courses)
CalculateSummary ==
    /\ summary_pc = "courses"
    /\ overall_summary' = CalculateOverallSummary(summary_courses)
    /\ summary_pc' = "summarised"
    /\ UNCHANGED <<summary_courses, mergeVars, courseVars, coordVars, pairVars, detailVars,
                   periodVars, sessionVars, metaVars, clientVars, pc, callNo, loginVars,
                   fetchVars>>

NextSummary == CalculateSummary

SummaryInit ==
    ClientInit /\ MergeParked /\ CourseParked /\ CoordParked /\ PairParked /\ DetailParked
        /\ PeriodsParked /\ SessionParked /\ MetaParked /\ SummaryInputs

SpecSummary == SummaryInit /\ [][NextSummary]_vars

\* the sum of f[i] over the indices i of S
RECURSIVE C22_Sum(_, _)
C22_Sum(f, S) ==
    IF S = {} THEN 0
    ELSE LET i == CHOOSE j \in S : TRUE
         IN f[i] + C22_Sum(f, S \ {i})

\* C22: course_count is the number of merged courses, placeholders included;
\* the plain average is the mean of the computed percentages of exactly the
\* courses whose computed percentage is not null, and null when there is
\* none; the points-weighted average uses only the courses with a computed
\* percentage and reported total points that parse, and is null when their
\* total weight is 0.
C22_PeriodSummary ==
    summary_pc = "summarised" =>
        LET cs == summary_courses
            G == {i \in 1..Len(cs) : cs[i].overall_percentage # None}
            W == {i \in G : /\ cs[i].hac_points_possible \notin {None, Some(<<>>)}
                            /\ ParseFloat(cs[i].hac_points_possible[1]) # None}
            pct == [i \in G |-> cs[i].overall_percentage[1]]
            weight == [i \in W |-> ParseFloat(cs[i].hac_points_possible[1])[1]]
            product == [i \in W |-> pct[i] * weight[i]]
            total == C22_Sum(weight, W)
        IN /\ overall_summary.course_count = Len(cs)
           /\ overall_summary.gpa_like_average =
                 IF G = {} THEN None
                 ELSE Some(RoundDiv(C22_Sum(pct, G), 10000 * Cardinality(G)))
           /\ total = 0 => overall_summary.weighted_gpa_like_average = None
           /\ total > 0 => overall_summary.weighted_gpa_like_average =
                              Some(RoundDiv(C22_Sum(product, W), 10000 * total))

\* a placeholder, a course at 90.00 with 100 points and a course at 80.50
\* whose points do not parse: count 3, mean 85.25, weighted mean 90.00
C22_Witness ==
    /\ summary_pc = "summarised"
    /\ Len(summary_courses) = 3
    /\ IsPlaceholder(summary_courses[1])
    /\ summary_courses[2].overall_percentage = Some(9000)
    /\ summary_courses[2].hac_points_possible = Some(<<"1", "0", "0">>)
    /\ summary_courses[3].overall_percentage = Some(8050)
    /\ summary_courses[3].hac_points_possible = Some(<<"a", "b", "c">>)
    /\ overall_summary.course_count = 3
    /\ overall_summary.gpa_like_average = Some(8525)
    /\ overall_summary.weighted_gpa_like_average = Some(9000)

\* C23: the merged course list of a period has the roster's length and order,
\* its i-th entry carrying the name of the i-th roster entry whatever the
\* order and number of the graded records, and a graded record whose name
\* matches no roster entry is not in the list.
C23_RosterOrder ==
    merge_pc = "merged" =>
        /\ Len(courses) = Len(all_courses_info)
        /\ \A i \in 1..Len(courses) : courses[i].course = all_courses_info[i].course
        /\ \A k \in 1..Len(courses_with_grades) :
              courses_with_grades[k].course \notin RosterNames =>
                  \A i \in 1..Len(courses) :
                      /\ courses[i] # courses_with_grades[k]
                      /\ courses[i].course # courses_with_grades[k].course

\* the roster ENG, MATH against graded records in the order MATH, ENG and a
\* third one under its fallback name, which no roster entry carries
C23_Witness ==
    /\ merge_pc = "merged"
    /\ Len(all_courses_info) = 2
    /\ all_courses_info[1].course = "ENG"
    /\ all_courses_info[2].course = "MATH"
    /\ Len(courses_with_grades) = 3
    /\ courses_with_grades[1].course = "MATH"
    /\ courses_with_grades[2].course = "ENG"
    /\ courses_with_grades[3].course = "Course 3"
    /\ Len(courses) = 2
    /\ courses[1] = courses_with_grades[2]
    /\ courses[2] = courses_with_grades[1]

\* a row that cannot be parsed: fewer than 6 cells, no title link, or a
\* non-numeric text in the SBF score column of a row whose raw score reads SBF
C24_Unparsable(row) ==
    \/ row.ncells < 6
    \/ row.title = ""
    \/ /\ row.ncells > 7
       /\ C20_Matches(row.raw_score, 4)
       /\ \A k \in 1..3 : ~C20_Matches(row.raw_score, k)
       /\ ParseFloat(row.cell7) = None

\* the rows of the table that can be parsed, in table order
RECURSIVE C24_Parsable(_)
C24_Parsable(rows) ==
    IF rows = <<>> THEN <<>>
    ELSE (IF C24_Unparsable(Head(rows)) THEN <<>> ELSE <<Head(rows)>>)
         \o C24_Parsable(Tail(rows))

\* C24: for every assignment table, a row that cannot be parsed (fewer than 6
\* cells, no title link, non-numeric value in the SBF score column) is left
\* out of the course's assignment list, every other row of the table yields
\* its assignment, in table order, and the course record is still produced.
C24_BadRowsSkipped ==
    course_pc = "parsed" =>
        LET good == C24_Parsable(table_rows)
        IN /\ Len(assignments) = Len(good)
           /\ \A i \in 1..Len(good) :
                 /\ assignments[i].title = good[i].title
                 /\ assignments[i].category = good[i].category
                 /\ assignments[i].raw_score = good[i].raw_score
           /\ DOMAIN category_stats = {PRACTICE, PROCESS, PRODUCT}
           /\ overall_percentage = CalculateWeightedPercentage(category_stats)

\* a row whose SBF score column reads "abc" before a row scored 90: the list
\* holds the second row's assignment alone
C24_Witness ==
    /\ course_pc = "parsed"
    /\ Len(table_rows) = 2
    /\ table_rows[1].ncells = 8
    /\ table_rows[1].raw_score = <<"S", "B", "F">>
    /\ table_rows[1].cell7 = <<"a", "b", "c">>
    /\ table_rows[2].raw_score = <<"9", "0">>
    /\ table_rows[2].ncells = 6
    /\ table_rows[2].title = "HW"
    /\ Len(assignments) = 1
    /\ assignments[1].raw_score = <<"9", "0">>
    /\ assignments[1].score = Some(900)
    /\ overall_percentage = Some(9000)

\* a step of login() that does not return True leaves self._cookies,
\* self._initial_html, self._initial_quarter and self._detected_student_id alone
C25_Frame ==
    (pc \in {"login_top", "login_post"} /\ login_result' # "True") =>
        UNCHANGED <<cookies, initial_html, initial_quarter, detected_student_id>>

C26_Attempts == n_post + n_not_ready

\* every step inside login() either uses up an attempt or moves from the top
\* of the loop to the automation call, so the loop cannot go round for ever
C26_Progress ==
    pc \in {"login_top", "login_post"} =>
        \/ C26_Attempts' = C26_Attempts + 1
        \/ pc = "login_top" /\ pc' \in {"login_post", "login_ret"}
              /\ C26_Attempts' = C26_Attempts

C26_Bounded ==
    /\ C26_Attempts <= 12
    /\ attempt <= 12
    /\ pc = "login_post" => C26_Attempts < 12
    /\ \A i \in 1..(Len(sleeps) - 1) : sleeps[i] <= sleeps[i + 1]

\* C26: every login() call ends after at most 12 attempts: the number of
\* automation calls plus the number of not-live probe results in one login
\* never exceeds 12, and the backoff delays slept within one login are
\* non-decreasing from one sleep to the next.
C26_TwelveAttempts == []C26_Bounded /\ [][C26_Progress]_vars

\* a login that used all 12 attempts, on not-live probes and on transport
\* errors, and returned False
C26_Witness ==
    /\ pc = "login_ret"
    /\ login_result = "False"
    /\ C26_Attempts = 12
    /\ n_not_ready >= 2
    /\ n_transport >= 2
    /\ Len(sleeps) >= 11

\* C27: login() never waits a backoff delay that is not followed by another
\* attempt: when the 12th and last attempt ends without success (transport
\* error or backend not live), login returns False without sleeping first; so
\* a login that has returned False slept fewer times than it used attempts.
C27_NoSleepBeforeGivingUp ==
    (pc = "login_ret" /\ login_result = "False") =>
        Len(sleeps) < n_post + n_not_ready

(***************************************************************************)
(* fetch_grades over the content of the period documents: each document    *)
(* that was obtained goes through the roster extraction, the course        *)
(* parsing, the merge and the summary of _fetch_quarter_grades.  The       *)
(* client has logged in and knows its identity, so the identity check is   *)
(* skipped; no document is cached.                                         *)
(***************************************************************************)

\* the most course blocks (AssignmentClass divs) a document of this part has
MaxBlocks == 1

\* _fetch_quarter_with_browserless gave None or an empty text
NoDocument == [kind |-> "none", divs |-> <<>>, tables |-> <<>>]

\* the documents: none, or one with up to MaxBlocks course blocks and one
\* table slot, with or without a table
ContentDocs ==
    {NoDocument} \cup
    {[kind |-> "html", divs |-> d, tables |-> <<t>>] :
        d \in SeqsUpTo({"ENG"}, MaxBlocks),
        t \in {NoTable, [present |-> TRUE, name_elem |-> "ENG", rows |-> 2]}}

\* a period whose document has no course block is reported as a failure
PeriodData_EmptyIsError(doc) ==
    IF doc.kind # "html" \/ doc.divs = <<>>
      THEN [error |-> TRUE, overall_summary |-> EmptyMap, courses |-> <<>>]
      ELSE LET merged == MergeCourses(ExtractAllCourses(doc.divs), ParseCourses(doc.tables))
           IN [error |-> FALSE,
               overall_summary |-> CalculateOverallSummary(merged),
               courses |-> merged]

\* the dict _fetch_quarter_grades returns: {"error": ...} when no document
\* was obtained, else {"overall_summary": ..., "courses": ...}
PeriodData(doc) ==
    IF doc.kind # "html"
      THEN [error |-> TRUE, overall_summary |-> EmptyMap, courses |-> <<>>]
      ELSE LET merged == MergeCourses(ExtractAllCourses(doc.divs), ParseCourses(doc.tables))
           IN [error |-> FALSE,
               overall_summary |-> CalculateOverallSummary(merged),
               courses |-> merged]

PeriodsInputs ==
    /\ period_docs \in [QuarterSet -> ContentDocs]
    /\ period_i = 1
    /\ periods_data = EmptyMap
    /\ periods_result = NoResult

\* one iteration of "for quarter in quarters" of fetch_grades
FetchPeriod ==
    /\ period_i \in 1..Len(quarters)
    /\ LET quarter == quarters[period_i]
           quarter_data == PeriodData(period_docs[quarter])
       IN periods_data' =
             IF ~quarter_data.error
               THEN (quarter :> [overall_summary |-> quarter_data.overall_summary,
                                 courses |-> quarter_data.courses]) @@ periods_data
               ELSE periods_data
    /\ period_i' = period_i + 1
    /\ UNCHANGED <<period_docs, periods_result, mergeVars, courseVars, coordVars, pairVars,
                   detailVars, summaryVars, sessionVars, metaVars, clientVars, pc, callNo,
                   loginVars, fetchVars>>

\* after the loop: "if not quarters_data: return {'error': ...}", else the result
FinishPeriods ==
    /\ period_i = Len(quarters) + 1
    /\ periods_result' =
          IF DOMAIN periods_data = {}
            THEN ErrorResult("No quarter data could be fetched")
            ELSE [kind |-> "ok", error |-> "", quarters |-> periods_data,
                  student_id |-> student_id]
    /\ period_i' = Len(quarters) + 2
    /\ UNCHANGED <<period_docs, periods_data, mergeVars, courseVars, coordVars, pairVars,
                   detailVars, summaryVars, sessionVars, metaVars, clientVars, pc, callNo,
                   loginVars, fetchVars>>

NextPeriods == FetchPeriod \/ FinishPeriods

PeriodsInit ==
    ClientInit /\ MergeParked /\ CourseParked /\ CoordParked /\ PairParked /\ DetailParked
        /\ SummaryParked /\ SessionParked /\ MetaParked /\ PeriodsInputs

SpecPeriods == PeriodsInit /\ [][NextPeriods]_vars

\* the document of period q was obtained and has no course block
C28_EmptyDocument(q) ==
    period_docs[q].kind = "html" /\ period_docs[q].divs = <<>>

MaxUpdates == 3

\* "self._session is None or self._session.closed"
NeedsSession == coord_session = 0 \/ coord_session \in closed_sessions

\* self._session after "if self._session is None or self._session.closed:
\* self._session = aiohttp.ClientSession()"
EnsuredSession ==
    IF NeedsSession THEN Cardinality(closed_sessions) + 1 ELSE coord_session

\* self._client.session after "if self._client is None: self._client =
\* HACClient(..., self._session, ...)": an existing client keeps its session
EnsuredClient(session) == IF client_session = 0 THEN session ELSE client_session

\* __init__: self._session = None, self._client = None
SessionNew ==
    /\ coord_session = 0
    /\ closed_sessions = {}
    /\ client_session = 0
    /\ session_pc = "idle"
    /\ fetch_calls = <<>>

\* _async_update_data up to "data = await self._client.fetch_grades()"
UpdateCallsFetch ==
    /\ session_pc = "idle"
    /\ Len(fetch_calls) < MaxUpdates
    /\ coord_session' = EnsuredSession
    /\ client_session' = EnsuredClient(EnsuredSession)
    /\ fetch_calls' = Append(fetch_calls,
                             [held |-> EnsuredClient(EnsuredSession),
                              current |-> EnsuredSession,
                              held_closed |-> EnsuredClient(EnsuredSession) \in closed_sessions,
                              outcome |-> "pending"])
    /\ session_pc' = "fetching"
    /\ UNCHANGED <<closed_sessions, mergeVars, courseVars, coordVars, pairVars, detailVars,
                   summaryVars, periodVars, metaVars, clientVars, pc, callNo, loginVars,
                   fetchVars>>

\* fetch_grades returns: the update returns its data or raises UpdateFailed
UpdateReturns ==
    /\ session_pc = "fetching"
    /\ \E o \in {"returned", "UpdateFailed"} :
          fetch_calls' = [fetch_calls EXCEPT ![Len(fetch_calls)].outcome = o]
    /\ session_pc' = "idle"
    /\ UNCHANGED <<coord_session, closed_sessions, client_session, mergeVars, courseVars,
                   coordVars, pairVars, detailVars, summaryVars, periodVars, metaVars,
                   clientVars, pc, callNo, loginVars, fetchVars>>

\* async_shutdown: "if self._session and not self._session.closed: close()"
AsyncShutdown ==
    /\ session_pc \in {"idle", "fetching"}
    /\ coord_session # 0
    /\ coord_session \notin closed_sessions
    /\ closed_sessions' = closed_sessions \cup {coord_session}
    /\ UNCHANGED <<coord_session, client_session, session_pc, fetch_calls, mergeVars,
                   courseVars, coordVars, pairVars, detailVars, summaryVars, periodVars,
                   metaVars, clientVars, pc, callNo, loginVars, fetchVars>>

NextSession == UpdateCallsFetch \/ UpdateReturns \/ AsyncShutdown

SessionInit ==
    ClientInit /\ MergeParked /\ CourseParked /\ CoordParked /\ PairParked /\ DetailParked
        /\ SummaryParked /\ PeriodsParked /\ MetaParked /\ SessionNew

SpecSession == SessionInit /\ [][NextSession]_vars

\* C29: for every sequence of _async_update_data and async_shutdown calls on
\* one coordinator, whenever an update calls the client's fetch_grades the
\* session held by the client is the coordinator's current session and is
\* not closed.
C29_ClientHoldsLiveSession ==
    \A i \in 1..Len(fetch_calls) :
        /\ fetch_calls[i].held = fetch_calls[i].current
        /\ ~fetch_calls[i].held_closed

(***************************************************************************)
(* The metadata file hac_entity_registry.json and its writers.             *)
(* _write_entity_metadata (sensor platform) and                            *)
(* _update_entity_metadata_with_binary_sensors (binary sensor platform)    *)
(* run once per student; each "await hass.async_add_executor_job(...)" is  *)
(* a step of its own, and the write job is two steps, open(..., "w"),      *)
(* which truncates the file, and json.dump.  The JSON is kept as the set   *)
(* of student ids under "students" and the set of those whose entry has    *)
(* has_binary_sensors.                                                     *)
(***************************************************************************)

MetaStudents == {student_id, OtherStudent}

\* the writers: the function that runs, and the student it runs for
MetaWriters == {"sensor", "binary"} \X MetaStudents

AbsentFile == [state |-> "absent", students |-> {}, binary |-> {}]

TruncatedFile == [state |-> "partial", students |-> {}, binary |-> {}]

JsonFile(students, binary) == [state |-> "json", students |-> students, binary |-> binary]

\* existing_metadata = {}
EmptyMetadata == [students |-> {}, binary |-> {}]

MetaInputs ==
    /\ meta_file \in {AbsentFile, JsonFile({}, {})}
    /\ meta_proc = [w \in MetaWriters |-> [pc |-> "exists", metadata |-> EmptyMetadata]]

\* _write_entity_metadata: "if await ...(metadata_file.exists)"
WriteMetaExists(s) ==
    LET w == <<"sensor", s>>
    IN /\ meta_proc[w].pc = "exists"
       /\ meta_proc' = [meta_proc EXCEPT
                           ![w].pc = IF meta_file.state # "absent" THEN "load" ELSE "build"]
       /\ UNCHANGED <<meta_file, mergeVars, courseVars, coordVars, pairVars, detailVars,
                      summaryVars, periodVars, sessionVars, clientVars, pc, callNo,
                      loginVars, fetchVars>>

\* _write_entity_metadata: json.load, {} kept on JSONDecodeError
WriteMetaLoad(s) ==
    LET w == <<"sensor", s>>
    IN /\ meta_proc[w].pc = "load"
       /\ meta_proc' = [meta_proc EXCEPT
                           ![w].pc = "build",
                           ![w].metadata =
                               IF meta_file.state = "json"
                                 THEN [students |-> meta_file.students,
                                       binary |-> meta_file.binary]
                                 ELSE EmptyMetadata]
       /\ UNCHANGED <<meta_file, mergeVars, courseVars, coordVars, pairVars, detailVars,
                      summaryVars, periodVars, sessionVars, clientVars, pc, callNo,
                      loginVars, fetchVars>>

\* _write_entity_metadata: existing_metadata["students"][student_id] =
\* student_metadata (a fresh entry, without has_binary_sensors), then
\* open(metadata_file, "w")
WriteMetaOpen(s) ==
    LET w == <<"sensor", s>>
    IN /\ meta_proc[w].pc = "build"
       /\ meta_proc' = [meta_proc EXCEPT
                           ![w].pc = "dump",
                           ![w].metadata =
                               [students |-> meta_proc[w].metadata.students \cup {s},
                                binary |-> meta_proc[w].metadata.binary \ {s}]]
       /\ meta_file' = TruncatedFile
       /\ UNCHANGED <<mergeVars, courseVars, coordVars, pairVars, detailVars,
                      summaryVars, periodVars, sessionVars, clientVars, pc, callNo,
                      loginVars, fetchVars>>

\* _update_entity_metadata_with_binary_sensors: return when the file does
\* not exist
UpdateMetaExists(s) ==
    LET w == <<"binary", s>>
    IN /\ meta_proc[w].pc = "exists"
       /\ meta_proc' = [meta_proc EXCEPT
                           ![w].pc = IF meta_file.state # "absent" THEN "load" ELSE "done"]
       /\ UNCHANGED <<meta_file, mergeVars, courseVars, coordVars, pairVars, detailVars,
                      summaryVars, periodVars, sessionVars, clientVars, pc, callNo,
                      loginVars, fetchVars>>

\* _update_entity_metadata_with_binary_sensors: json.load (an exception ends
\* the function), then the student's entry, when there is one, gets
\* has_binary_sensors and the file is opened for writing
UpdateMetaLoad(s) ==
    LET w == <<"binary", s>>
    IN /\ meta_proc[w].pc = "load"
       /\ IF meta_file.state = "json" /\ s \in meta_file.students
            THEN /\ meta_proc' = [meta_proc EXCEPT
                                     ![w].pc = "open",
                                     ![w].metadata =
                                         [students |-> meta_file.students,
                                          binary |-> meta_file.binary \cup {s}]]
            ELSE /\ meta_proc' = [meta_proc EXCEPT ![w].pc = "done"]
       /\ UNCHANGED <<meta_file, mergeVars, courseVars, coordVars, pairVars, detailVars,
                      summaryVars, periodVars, sessionVars, clientVars, pc, callNo,
                      loginVars, fetchVars>>

\* _update_entity_metadata_with_binary_sensors: open(metadata_file, "w")
UpdateMetaOpen(s) ==
    LET w == <<"binary", s>>
    IN /\ meta_proc[w].pc = "open"
       /\ meta_proc' = [meta_proc EXCEPT ![w].pc = "dump"]
       /\ meta_file' = TruncatedFile
       /\ UNCHANGED <<mergeVars, courseVars, coordVars, pairVars, detailVars,
                      summaryVars, periodVars, sessionVars, clientVars, pc, callNo,
                      loginVars, fetchVars>>

\* _write_metadata of either function: json.dump of the dict held in memory
MetaDump(w) ==
    /\ meta_proc[w].pc = "dump"
    /\ meta_file' = JsonFile(meta_proc[w].metadata.students, meta_proc[w].metadata.binary)
    /\ meta_proc' = [meta_proc EXCEPT ![w].pc = "done"]
    /\ UNCHANGED <<mergeVars, courseVars, coordVars, pairVars, detailVars,
                   summaryVars, periodVars, sessionVars, clientVars, pc, callNo,
                   loginVars, fetchVars>>

NextMeta ==
    \/ \E s \in MetaStudents : WriteMetaExists(s)
    \/ \E s \in MetaStudents : WriteMetaLoad(s)
    \/ \E s \in MetaStudents : WriteMetaOpen(s)
    \/ \E s \in MetaStudents : UpdateMetaExists(s)
    \/ \E s \in MetaStudents : UpdateMetaLoad(s)
    \/ \E s \in MetaStudents : UpdateMetaOpen(s)
    \/ \E w \in MetaWriters : MetaDump(w)

MetaInit ==
    ClientInit /\ MergeParked /\ CourseParked /\ CoordParked /\ PairParked /\ DetailParked
        /\ SummaryParked /\ PeriodsParked /\ SessionParked /\ MetaInputs

SpecMeta == MetaInit /\ [][NextMeta]_vars

\* C30: when the metadata writers of two students run with any interleaving
\* of their load and write steps on the one shared metadata file, the file
\* ends up holding the entries of both students: no writer's update is lost
\* to another writer's read-modify-write.
C30_NoLostUpdate ==
    (\A w \in MetaWriters : meta_proc[w].pc = "done") =>
        /\ meta_file.state = "json"
        /\ MetaStudents \subseteq meta_file.students

====
